---- MODULE Spec2Model ----
(***************************************************************************)
(* Tagging-and-retrieval pipeline of Credit-Guardian-AI:                   *)
(*   advanced_tagging.py      tag rebuild (legal_article_tags)             *)
(*   tag_articles.py          keyword tagger (legal_article_tags)          *)
(*   create_ingestion_view.py ingestion materializer (article_ingestion)   *)
(*   generate_embeddings.py   embedding generator (article_embeddings)     *)
(*   semantic_search.py       similarity search                            *)
(*   ai_agent/rag_utils.py    retrieval and context for the agent          *)
(*                                                                         *)
(* Texts are sequences of characters, the Cyrillic letters written in      *)
(* Latin transliteration with one symbol per letter.  Vectors are          *)
(* sequences of integers whose L2 norm is an integer, so that sqrt is      *)
(* exact.  Similarities are exact fractions dot / (norm1 * norm2); a       *)
(* reported similarity is an integer number of 1/10000                     *)
(* (round(similarity, 4)), a threshold an integer number of 1/100000.      *)
(* Tag scores are binary floating-point numbers of MantissaBits bits in    *)
(* units of 1/1024; the text SQLite writes for one has TextDigits          *)
(* significant decimal digits.                                             *)
(***************************************************************************)
EXTENDS Integers, Sequences, FiniteSets, TLC

VARIABLES
    legal_articles,      \* table legal_articles: article id -> content
    legal_article_tags,  \* table legal_article_tags: article id -> <<[tag, score]>>
    tag_pc,              \* advanced_tagging.main: "idle" | "deleted"
    articles,            \* advanced_tagging.main: the articles loaded by the last run
    tag_scores,          \* advanced_tagging.main: tag_scores of the last run
    tag_purged,          \* the last DELETE removed rows of a removed article or without score
    tag_done,            \* articles whose rows the last run had inserted when it was interrupted
    tag_run,             \* advanced_tagging.main in steps: article_tokens, scored articles, hash seed
    article_ingestion,   \* table article_ingestion: [exists, rows]
    mat_pc,              \* create_ingestion_view.main: "idle" | "dropped" | "created"
    mat_purged,          \* the last DROP removed a record of a removed article
    mat_done,            \* articles whose row the last run had built when it was interrupted
    article_embeddings,  \* table article_embeddings: article id -> row
    gen_pc,              \* generate_embeddings.main: position of the run
    pending,             \* main: the list returned by get_pending_articles
    start_idx,           \* main: start of the current batch (1-based)
    i,                   \* process_batch: index of the next article of the batch
    success,             \* process_batch: success
    failure,             \* process_batch: failure
    total_success,       \* main: total_success
    total_failure,       \* main: total_failure
    raised,              \* an exception left process_batch
    txn,                 \* the generator's open write transaction: the table it would commit
    search_out,          \* last call of search_similar_articles: inputs and outcome
    call                 \* last call of a function without side effects: [fn, arg, result]

vars == <<legal_articles, legal_article_tags, tag_pc, articles, tag_scores,
          tag_purged, tag_done, tag_run, article_ingestion, mat_pc, mat_purged, mat_done,
          article_embeddings, gen_pc, pending,
          start_idx, i, success, failure, total_success, total_failure,
          raised, txn, search_out, call>>

tagVars == <<legal_article_tags, tag_pc, articles, tag_scores, tag_purged, tag_done,
             tag_run>>
matVars == <<article_ingestion, mat_pc, mat_purged, mat_done>>
genVars == <<gen_pc, pending, start_idx, i, success, failure,
             total_success, total_failure, raised, txn>>

-----------------------------------------------------------------------------
(* Bounds *)

DimBound == 2        \* vector dimensionality of the modelled embedding model
BatchBound == 2      \* articles per batch

Articles == {1, 2}
Documents == {1, 2}
DocumentOf == [a \in Articles |-> a]      \* legal_articles.document_id

\* A text is a sequence of characters; the Cyrillic letters are written in
\* Latin transliteration, one symbol per letter.
DocLabor ==
    << "t", "r", "u", "d", "a" >>

Contents == {<< >>, DocLabor}             \* empty text, text with a labor keyword

EMBEDDING_MODEL == "paraphrase-multilingual-MiniLM-L12-v2"
EMBEDDING_DIM == DimBound
BATCH_SIZE == BatchBound
MaxTextLen == 5000                         \* text[:5000]
MaxContextArticles == 2                    \* retrieved articles of a call
MaxBeginLen == 2                           \* letters before the ending of a word
NULL == "NULL"                             \* SQL NULL / Python None in a text column
None == <<>>                               \* Python None returned for a vector
NoScore == -1                              \* score NULL of a tag row (sorts last)

Min(a, b) == IF a < b THEN a ELSE b

-----------------------------------------------------------------------------
(* Pure helpers of generate_embeddings.py *)

\* SHA-256 is modelled as an injective function into a separate domain.
compute_content_hash(content) == <<"sha256", content>>

RECURSIVE SumSq(_)
SumSq(v) == IF v = <<>> THEN 0 ELSE Head(v) * Head(v) + SumSq(Tail(v))

RECURSIVE ISqrtIn(_, _, _)
ISqrtIn(n, lo, hi) ==
    IF lo >= hi THEN lo
    ELSE LET mid == (lo + hi + 1) \div 2
         IN  IF mid * mid <= n THEN ISqrtIn(n, mid, hi) ELSE ISqrtIn(n, lo, mid - 1)

\* math.sqrt on the perfect squares the model uses
Sqrt(n) == ISqrtIn(n, 0, 46340)

compute_l2_norm(vector) == Sqrt(SumSq(vector))

\* Vectors the modelled embedding model produces (integer norms 1, 5, 13, 5).
BaseVectors == << <<0, 1>>, <<3, 4>>, <<12, 5>>, <<4, 3>> >>

Pad(v, n) == [k \in 1..n |-> IF k <= Len(v) THEN v[k] ELSE 0]

\* model.encode(text): a deterministic function of the text
Encode(text) == Pad(BaseVectors[(Len(text) % Len(BaseVectors)) + 1], EMBEDDING_DIM)

\* What one call of model.encode does: returns the vector, raises, or returns
\* a vector of another length (a model whose output size is not EMBEDDING_DIM).
Outcomes == {"ok", "raise", "wrong_dim", "empty"}

\* get_embedding without its try/except: the exception of model.encode escapes
get_embedding_uncaught(text, outcome) ==
    LET t == SubSeq(text, 1, Min(Len(text), MaxTextLen))
    IN  CASE outcome = "ok"        -> [raised |-> FALSE, vector |-> Encode(t)]
          [] outcome = "wrong_dim" -> [raised |-> FALSE,
                                       vector |-> Pad(Encode(t), EMBEDDING_DIM + 1)]
          [] outcome = "empty"     -> [raised |-> FALSE, vector |-> <<>>]
          [] OTHER                 -> [raised |-> TRUE, vector |-> None]

get_embedding(text, outcome) ==
    LET t == SubSeq(text, 1, Min(Len(text), MaxTextLen))
    IN  CASE outcome = "ok"        -> [raised |-> FALSE, vector |-> Encode(t)]
          [] outcome = "wrong_dim" -> [raised |-> FALSE,
                                       vector |-> Pad(Encode(t), EMBEDDING_DIM + 1)]
          [] outcome = "empty"     -> [raised |-> FALSE, vector |-> <<>>]
          [] OTHER                 -> [raised |-> FALSE, vector |-> None]  \* except Exception

\* Python truthiness of the returned value: None and [] are falsy.
Truthy(vector) == vector # None /\ vector # <<>>

DimensionOk(vector) == Len(vector) = EMBEDDING_DIM

-----------------------------------------------------------------------------
(* advanced_tagging.py: lexical normalizer *)

\* A text is a sequence of characters.  The Cyrillic letters are written in
\* Latin transliteration, one symbol per letter ("zh", "sht", "ya" are single
\* letters; "j" is the short i, "y" the hard sign, "q" the soft sign).
\* LowerLetters is the range [a-ya] of the patterns, in alphabet order.
LowerLetters ==
    <<"a", "b", "v", "g", "d", "e", "zh", "z", "i", "j", "k", "l", "m", "n",
      "o", "p", "r", "s", "t", "u", "f", "h", "c", "ch", "sh", "sht", "y",
      "q", "yu", "ya" >>

UpperLetters ==
    <<"A", "B", "V", "G", "D", "E", "ZH", "Z", "I", "J", "K", "L", "M", "N",
      "O", "P", "R", "S", "T", "U", "F", "H", "C", "CH", "SH", "SHT", "Y",
      "Q", "YU", "YA" >>

Letters == {LowerLetters[k] : k \in DOMAIN LowerLetters}

\* str.lower() for one character
Lower(c) ==
    IF \E k \in DOMAIN UpperLetters : UpperLetters[k] = c
    THEN LowerLetters[CHOOSE k \in DOMAIN UpperLetters : UpperLetters[k] = c]
    ELSE c

\* The elements of a sequence (of a table), computed once
List(s) == s \o << >>
Table(f) == f @@ << >>

LowerText(text) == List([k \in 1..Len(text) |-> Lower(text[k])])

\* line 25: SUFFIXES
SUFFIXES ==
    <<<< "i", "t", "e" >>, << "i", "ya", "t" >>, << "i", "ya", "t", "a" >>,
      << "o", "v", "e", "t", "e" >>, << "e", "v", "e", "t", "e" >>,
      << "o", "v", "e" >>, << "e", "v", "e" >>, << "i", "ya" >>,
      << "y", "t" >>, << "ya", "t" >>, << "t", "a" >>, << "t", "o" >>,
      << "t", "e" >>, << "e", "n", "i", "t", "e" >>,
      << "e", "n", "i", "ya" >>, << "e", "n", "i" >>,
      << "n", "o", "s", "t", "t", "a" >>, << "n", "o", "s", "t" >>,
      << "ch", "e", "s", "k", "i" >>, << "o", "v" >>, << "e", "v" >>,
      << "i", "t", "e" >>, << "k", "i" >>, << "s", "k", "i" >>,
      << "s", "k", "o" >>, << "n", "i" >>, << "n", "a" >>, << "e", "n" >>,
      << "i", "j" >>, << "i", "ya" >>, << "a" >>, << "i" >> >>

MaxSuffixLen == 6

\* sorted(SUFFIXES, key=len, reverse=True): longest first, suffixes of one
\* length in the order of the list (the sort is stable)
RECURSIVE OfLength(_, _)
OfLength(sufs, n) ==
    IF sufs = << >> THEN << >>
    ELSE IF Len(Head(sufs)) = n THEN << Head(sufs) >> \o OfLength(Tail(sufs), n)
         ELSE OfLength(Tail(sufs), n)

RECURSIVE SuffixesByLength(_)
SuffixesByLength(n) ==
    IF n = 0 THEN << >>
    ELSE OfLength(SUFFIXES, n) \o SuffixesByLength(n - 1)

SortedSuffixes == SuffixesByLength(MaxSuffixLen)

EndsWith(w, suf) ==
    /\ Len(suf) <= Len(w)
    /\ SubSeq(w, Len(w) - Len(suf) + 1, Len(w)) = suf

\* line 33: re.sub(r'^[^a-ya]+|[^a-ya]+$', '', w)
StripEdges(w) ==
    LET idx == {k \in 1..Len(w) : w[k] \in Letters}
    IN  IF idx = {} THEN << >>
        ELSE SubSeq(w, CHOOSE k \in idx : \A m \in idx : k <= m,
                       CHOOSE k \in idx : \A m \in idx : k >= m)

\* lines 34-37: the first suffix of the sorted list that the word ends with
\* and that leaves at least 3 characters is removed
RECURSIVE StripSuffix(_, _)
StripSuffix(w, sufs) ==
    IF sufs = << >> THEN w
    ELSE IF EndsWith(w, Head(sufs)) /\ Len(w) - Len(Head(sufs)) >= 3
         THEN SubSeq(w, 1, Len(w) - Len(Head(sufs)))
         ELSE StripSuffix(w, Tail(sufs))

\* stem without the loop of lines 34-37
stemKeepsSuffix(word) ==
    LET w1 == LowerText(word)
        w2 == List([k \in 1..Len(w1) |-> IF w1[k] = "j" THEN "i" ELSE w1[k]])
    IN  StripEdges(w2)

\* stem, lines 29-38
stem(word) ==
    LET w1 == LowerText(word)
        w2 == List([k \in 1..Len(w1) |-> IF w1[k] = "j" THEN "i" ELSE w1[k]])
    IN  StripSuffix(StripEdges(w2), SortedSuffixes)

\* TOKEN_PATTERN.findall: the maximal runs of letters of either case
RECURSIVE LetterRuns(_, _)
LetterRuns(text, run) ==
    IF text = << >> THEN (IF run = << >> THEN << >> ELSE << run >>)
    ELSE IF Lower(Head(text)) \in Letters
         THEN LetterRuns(Tail(text), Append(run, Head(text)))
         ELSE (IF run = << >> THEN << >> ELSE << run >>)
                 \o LetterRuns(Tail(text), << >>)

\* tokenize, lines 42-43
tokenize(text) ==
    LET runs == LetterRuns(LowerText(text), << >>)
    IN  List([k \in 1..Len(runs) |-> stem(runs[k])])

-----------------------------------------------------------------------------
(* advanced_tagging.py: tag rebuild *)

\* lines 8-22, in the order of the dict
RAW_TAG_KEYWORDS ==
    <<
      [tag |-> "labor", words |-> <<
          << "t", "r", "u", "d" >>,
          << "r", "a", "b", "o", "t", "n", "i", "k" >>,
          << "r", "a", "b", "o", "t", "o", "d", "a", "t", "e", "l" >>,
          << "v", "y", "z", "n", "a", "g", "r", "a", "zh", "d", "e", "n", "i", "e" >>,
          << "z", "a", "p", "l", "a", "t", "a" >>,
          << "o", "t", "p", "u", "s", "k" >>
        >>],
      [tag |-> "social_security", words |-> <<
          << "o", "s", "i", "g", "u", "r", "ya", "v", "a", "n", "e" >>,
          << "p", "e", "n", "s", "i", "ya" >>,
          << "i", "n", "v", "a", "l", "i", "d", "n", "o", "s", "t" >>,
          << "o", "s", "i", "g", "u", "r", "i", "t", "e", "l", "e", "n" >>,
          << "b", "o", "l", "n", "i", "ch", "e", "n" >>
        >>],
      [tag |-> "tax_procedure", words |-> <<
          << "d", "a", "n", "y", "k" >>,
          << "d", "a", "n", "y", "ch", "e", "n" >>,
          << "d", "e", "k", "l", "a", "r", "a", "c", "i", "ya" >>,
          << "r", "e", "v", "i", "z", "i", "ya" >>,
          << "o", "b", "zh", "a", "l", "v", "a", "n", "e" >>
        >>],
      [tag |-> "civil_procedure", words |-> <<
          << "i", "s", "k" >>, << "z", "a", "p", "o", "v", "e", "d" >>,
          << "s", "y", "d" >>, << "d", "e", "l", "o" >>,
          << "p", "r", "o", "c", "e", "d", "u", "r", "a" >>,
          << "zh", "a", "l", "b", "a" >>
        >>],
      [tag |-> "penal_substantive", words |-> <<
          << "p", "r", "e", "s", "t", "y", "p", "l", "e", "n", "i", "e" >>,
          << "n", "a", "k", "a", "z", "a", "n", "i", "e" >>,
          << "l", "i", "sh", "a", "v", "a", "n", "e" >>,
          << "s", "v", "o", "b", "o", "d", "a" >>,
          << "g", "l", "o", "b", "a" >>, << "u", "m", "i", "s", "y", "l" >>
        >>],
      [tag |-> "criminal_procedure", words |-> <<
          << "d", "o", "s", "y", "d", "e", "b", "n", "o" >>,
          << "o", "b", "v", "i", "n", "ya", "e", "m" >>,
          << "r", "a", "z", "s", "l", "e", "d", "v", "a", "n", "e" >>,
          << "s", "y", "d", "e", "b", "n", "o" >>,
          << "p", "r", "o", "i", "z", "v", "o", "d", "s", "t", "v", "o" >>,
          << "a", "r", "e", "s", "t" >>
        >>],
      [tag |-> "family", words |-> <<
          << "b", "r", "a", "k" >>, << "s", "y", "p", "r", "u", "g" >>,
          << "r", "o", "d", "i", "t", "e", "l" >>,
          << "o", "s", "i", "n", "o", "v", "ya", "v", "a", "n", "e" >>,
          << "s", "e", "m", "e", "j", "s", "t", "v", "o" >>,
          << "i", "z", "d", "r", "y", "zh", "k", "a" >>
        >>],
      [tag |-> "maritime", words |-> <<
          << "k", "o", "r", "a", "b" >>,
          << "p", "l", "a", "v", "a", "n", "e" >>,
          << "m", "o", "r", "s", "k", "o" >>,
          << "p", "r", "i", "s", "t", "a", "n", "i", "sht", "e" >>,
          << "k", "a", "p", "i", "t", "a", "n" >>
        >>],
      [tag |-> "private_international_law", words |-> <<
          << "p", "r", "i", "l", "o", "zh", "i", "m", "o" >>,
          << "k", "o", "l", "i", "z", "i", "ya" >>,
          << "m", "e", "zh", "d", "u", "n", "a", "r", "o", "d", "n", "o" >>,
          << "ch", "a", "s", "t", "n", "o" >>,
          << "k", "o", "m", "p", "e", "t", "e", "n", "t", "n", "o", "s", "t" >>
        >>],
      [tag |-> "insurance", words |-> <<
          << "z", "a", "s", "t", "r", "a", "h", "o", "v", "k", "a" >>,
          << "z", "a", "s", "t", "r", "a", "h", "o", "v", "a", "t", "e", "l" >>,
          << "p", "r", "e", "m", "i", "ya" >>,
          << "z", "a", "s", "t", "r", "a", "h", "o", "v", "a", "n" >>,
          << "sht", "e", "t", "a" >>
        >>],
      [tag |-> "elections", words |-> <<
          << "i", "z", "b", "o", "r" >>,
          << "k", "a", "m", "p", "a", "n", "i", "ya" >>,
          << "g", "l", "a", "s", "u", "v", "a", "n", "e" >>,
          << "s", "e", "k", "c", "i", "ya" >>,
          << "m", "a", "n", "d", "a", "t" >>
        >>],
      [tag |-> "ethics_lawyer", words |-> <<
          << "a", "d", "v", "o", "k", "a", "t" >>,
          << "e", "t", "i", "ch", "e", "n" >>,
          << "p", "o", "v", "e", "d", "e", "n", "i", "e" >>,
          << "d", "o", "s", "t", "o", "j", "n", "o" >>
        >>],
      [tag |-> "ethics_medical", words |-> <<
          << "d", "e", "n", "t", "a", "l", "n", "a" >>,
          << "f", "a", "r", "m", "a", "c", "e", "v", "t" >>,
          << "m", "e", "d", "i", "c", "i", "n", "s", "k", "a" >>,
          << "e", "t", "i", "k", "a" >>
        >>]
    >>

MaxTagTextLen == 12000                   \* content[:12000]
TopTags == 5                             \* tag_scores[aid][:5]

RECURSIVE Dedup(_)
Dedup(s) ==
    IF s = << >> THEN << >>
    ELSE LET rest == Dedup(SubSeq(s, 1, Len(s) - 1))
             x    == s[Len(s)]
         IN  IF \E k \in DOMAIN rest : rest[k] = x THEN rest ELSE Append(rest, x)

\* build_tag_vocab, lines 45-49: per tag the set of the stems of its words
\* (kept as a sequence without duplicates)
build_tag_vocab ==
    List([k \in DOMAIN RAW_TAG_KEYWORDS |->
            [tag   |-> RAW_TAG_KEYWORDS[k].tag,
             vocab |-> Dedup(List([m \in DOMAIN RAW_TAG_KEYWORDS[k].words |->
                                     stem(RAW_TAG_KEYWORDS[k].words[m])]))]])

\* The order in which "for token in vocab" visits a set of strings depends
\* on the string hashes of the process (PYTHONHASHSEED); the modelled
\* processes visit the set in one of its rotations.
HashSeeds == {0, 1, 2}

IterationOrder(vocab, seed) ==
    List([k \in 1..Len(vocab) |-> vocab[((k - 1 + seed) % Len(vocab)) + 1]])

\* Python floats are modelled as binary floating-point numbers with a
\* significand of MantissaBits bits (53 in CPython), written as integers in
\* units of 1/1024; every operation rounds its exact result to nearest, ties
\* to even.
MantissaBits == 8

Float(n) == n * 1024

RECURSIVE Exponent(_, _)
Exponent(x, e) == IF x < (2 ^ MantissaBits) * (2 ^ e) THEN e ELSE Exponent(x, e + 1)

RoundShift(x, e) ==
    LET q    == x \div (2 ^ e)
        r    == x % (2 ^ e)
        half == (2 ^ e) \div 2
    IN  IF e = 0 THEN x
        ELSE IF r > half \/ (r = half /\ q % 2 = 1) THEN q + 1 ELSE q

FloatRound(x) == LET e == Exponent(x, 0) IN RoundShift(x, e) * (2 ^ e)

FAdd(a, b) == FloatRound(a + b)

FMul(a, b) == RoundShift(FloatRound(a * b), 10)

\* ln(n) in units of 1/1024, n = 1..8
LnTable == << 0, 710, 1125, 1420, 1648, 1835, 1993, 2129 >>

\* math.log(p / q) for integers p >= q >= 1
Log(p, q) == FloatRound(LnTable[p] - LnTable[q])

Count(toks, token) == Cardinality({k \in DOMAIN toks : toks[k] = token})

\* lines 63-70: article_tokens and the document frequency of a token
ArticleTokens(arts) ==
    Table([a \in DOMAIN arts |->
              tokenize(SubSeq(arts[a], 1, Min(Len(arts[a]), MaxTagTextLen)))])

DocumentFrequency(article_tokens, token) ==
    Cardinality({a \in DOMAIN article_tokens : Count(article_tokens[a], token) > 0})

\* line 79: idf = math.log((N + 1) / (df + 1)) + 1
Idf(article_tokens, token) ==
    LET N  == Cardinality(DOMAIN article_tokens)
        df == DocumentFrequency(article_tokens, token)
    IN  FAdd(Log(N + 1, df + 1), Float(1))

\* lines 88-93: the score of one tag for one article, summed in the order in
\* which the vocabulary is visited
RECURSIVE TagScore(_, _, _, _)
TagScore(score, order, toks, article_tokens) ==
    IF order = << >> THEN score
    ELSE LET token == Head(order)
             tf    == Count(toks, token)
             freq  == FAdd(Float(1), Log(tf, 1))
         IN  TagScore(IF tf > 0
                      THEN FAdd(score, FMul(freq, Idf(article_tokens, token)))
                      ELSE score,
                      Tail(order), toks, article_tokens)

\* line 94 with ">=" for ">"
IsAssignedNonNegative(score) == score >= 0

\* line 94: if score > 0
IsAssigned(score) == score > 0

\* lines 87-95: the (tag, score) pairs appended for one article, in the
\* order of the taxonomy
Candidates(aid, article_tokens, seed) ==
    LET scored == List([k \in DOMAIN build_tag_vocab |->
                          [tag   |-> build_tag_vocab[k].tag,
                           score |-> TagScore(0, IterationOrder(build_tag_vocab[k].vocab, seed),
                                              article_tokens[aid], article_tokens)]])
    IN  SelectSeq(scored, LAMBDA p : IsAssigned(p.score))

\* list.sort(key=score, reverse=True): stable, descending
RECURSIVE InsertDesc(_, _)
InsertDesc(p, sorted) ==
    IF sorted = << >> THEN << p >>
    ELSE IF Head(sorted).score >= p.score
         THEN << Head(sorted) >> \o InsertDesc(p, Tail(sorted))
         ELSE << p >> \o sorted

RECURSIVE SortDesc(_)
SortDesc(pairs) ==
    IF pairs = << >> THEN << >>
    ELSE InsertDesc(pairs[Len(pairs)], SortDesc(SubSeq(pairs, 1, Len(pairs) - 1)))

\* lines 85-98 for one article: sort by score, keep the top 5
ScoreTags(aid, article_tokens, seed) ==
    LET pairs == SortDesc(Candidates(aid, article_tokens, seed))
    IN  SubSeq(pairs, 1, Min(Len(pairs), TopTags))

NoTags == [a \in Articles |-> << >>]

NoRun == [article_tokens |-> << >>, scored |-> {}, seed |-> 0]

\* lines 55-98: tag_scores of a run that loaded the articles arts
RebuildScores(arts, seed) ==
    LET article_tokens == ArticleTokens(arts)
    IN  Table([a \in Articles |->
                  IF a \in DOMAIN arts THEN ScoreTags(a, article_tokens, seed) ELSE << >>])

\* The corpus texts of the tagging specifications
DocTie ==
    << "T", "r", "u", "d", ",", " ", "i", "s", "k" >>

DocSum ==
    << "T", "r", "u", "d", "y", "t", " ", "r", "a", "b", "o", "t", "n",
       "i", "k", " ", "r", "a", "b", "o", "t", "n", "i", "k", " ", "z",
       "a", "p", "l", "a", "t", "a", " ", "z", "a", "p", "l", "a", "t",
       "a", " ", "z", "a", "p", "l", "a", "t", "a" >>

DocSix ==
    << "t", "r", "u", "d", " ", "p", "e", "n", "s", "i", "ya", " ", "d",
       "a", "n", "y", "k", " ", "i", "s", "k", " ", "g", "l", "o", "b",
       "a", " ", "b", "r", "a", "k" >>

DocNone ==
    << "n", "i", "sht", "o", " ", "1" >>

TagContents == {<< >>, DocLabor, DocTie, DocSum, DocSix, DocNone}

\* The corpora of the specifications, and tag_scores of a run for each of
\* them and each hash seed (computed once)
Corpora == UNION {[S -> TagContents] : S \in SUBSET Articles}

RunScores ==
    Table([arts \in Corpora |->
              Table([seed \in HashSeeds |-> RebuildScores(arts, seed)])])

\* main, lines 55-103 without the DELETE of line 102
TagDeleteKeepsRows ==
    /\ tag_pc = "idle"
    /\ articles' = legal_articles
    /\ \E seed \in HashSeeds : tag_scores' = RunScores[legal_articles][seed]
    /\ tag_purged' = FALSE
    /\ tag_done' = {}
    /\ UNCHANGED tag_run
    /\ tag_pc' = "deleted"
    /\ UNCHANGED <<legal_articles, legal_article_tags, matVars, article_embeddings,
                   genVars, search_out, call>>

\* main, lines 55-103: load the articles, score them, DELETE FROM
\* legal_article_tags, commit.  tag_purged records whether the DELETE removed
\* a row of an article that is no longer in legal_articles or a row without
\* score.
TagDelete ==
    /\ tag_pc = "idle"
    /\ articles' = legal_articles
    /\ \E seed \in HashSeeds : tag_scores' = RunScores[legal_articles][seed]
    /\ tag_done' = {}
    /\ UNCHANGED tag_run
    /\ tag_purged' = \E a \in Articles : \E k \in DOMAIN legal_article_tags[a] :
                         \/ a \notin DOMAIN legal_articles
                         \/ legal_article_tags[a][k].score = NoScore
    /\ legal_article_tags' = NoTags
    /\ tag_pc' = "deleted"
    /\ UNCHANGED <<legal_articles, matVars, article_embeddings, genVars, search_out, call>>

\* main, lines 105-112: insert the computed rows, commit.
TagInsert ==
    /\ tag_pc = "deleted"
    /\ legal_article_tags' =
          [a \in Articles |-> legal_article_tags[a] \o tag_scores[a]]
    /\ tag_pc' = "idle"
    /\ UNCHANGED <<legal_articles, articles, tag_scores, tag_purged, tag_done, tag_run, matVars,
                   article_embeddings, genVars, search_out, call>>

\* The run of main in the steps of its loops.
\* main, lines 55-64: load the articles; the process has its hash seed.
TagLoad ==
    /\ tag_pc = "idle"
    /\ articles' = legal_articles
    /\ tag_scores' = NoTags
    /\ \E seed \in HashSeeds :
          tag_run' = [article_tokens |-> << >>, scored |-> {}, seed |-> seed]
    /\ tag_done' = {}
    /\ tag_pc' = "df"
    /\ UNCHANGED <<legal_articles, legal_article_tags, tag_purged, matVars,
                   article_embeddings, genVars, search_out, call>>

\* The next article of a loop over the loaded articles (in the order of the
\* SELECT of line 56), given the articles already visited
NextArticle(visited) ==
    CHOOSE a \in DOMAIN articles \ visited : \A b \in DOMAIN articles \ visited : a <= b

\* lines 65-70: one article of the document-frequency pass; its tokens are
\* kept in article_tokens and counted in df_counter
DfStep ==
    /\ tag_pc = "df"
    /\ DOMAIN tag_run.article_tokens # DOMAIN articles
    /\ LET a    == NextArticle(DOMAIN tag_run.article_tokens)
           toks == tokenize(SubSeq(articles[a], 1, Min(Len(articles[a]), MaxTagTextLen)))
       IN  tag_run' = [tag_run EXCEPT !.article_tokens =
                          Table([b \in DOMAIN @ \cup {a} |-> IF b = a THEN toks ELSE @[b]])]
    /\ UNCHANGED <<legal_articles, legal_article_tags, tag_pc, articles, tag_scores,
                   tag_purged, tag_done, matVars, article_embeddings, genVars,
                   search_out, call>>

\* lines 71-83: the loop has visited every article; N and tag_idf are computed
DfDone ==
    /\ tag_pc = "df"
    /\ DOMAIN tag_run.article_tokens = DOMAIN articles
    /\ tag_pc' = "scoring"
    /\ UNCHANGED <<legal_articles, legal_article_tags, articles, tag_scores,
                   tag_purged, tag_done, tag_run, matVars, article_embeddings,
                   genVars, search_out, call>>

\* lines 85-98 entered while the loop of lines 65-70 is still running: the
\* articles tokenized so far are scored
ScoreStepEarly ==
    /\ tag_pc \in {"df", "scoring"}
    /\ DOMAIN tag_run.article_tokens \ tag_run.scored # {}
    /\ LET a == CHOOSE x \in DOMAIN tag_run.article_tokens \ tag_run.scored : TRUE
       IN  /\ tag_scores' = [tag_scores EXCEPT
                                ![a] = ScoreTags(a, tag_run.article_tokens, tag_run.seed)]
           /\ tag_run' = [tag_run EXCEPT !.scored = @ \cup {a}]
    /\ UNCHANGED <<legal_articles, legal_article_tags, tag_pc, articles,
                   tag_purged, tag_done, matVars, article_embeddings, genVars,
                   search_out, call>>

\* lines 85-98: the scores of one article, from its entry of article_tokens
\* and the idf of the whole pass
ScoreStep ==
    /\ tag_pc = "scoring"
    /\ tag_run.scored # DOMAIN articles
    /\ LET a == NextArticle(tag_run.scored)
       IN  /\ tag_scores' = [tag_scores EXCEPT
                                ![a] = ScoreTags(a, tag_run.article_tokens, tag_run.seed)]
           /\ tag_run' = [tag_run EXCEPT !.scored = @ \cup {a}]
    /\ UNCHANGED <<legal_articles, legal_article_tags, tag_pc, articles,
                   tag_purged, tag_done, matVars, article_embeddings, genVars,
                   search_out, call>>

\* lines 100-103: every article is scored; DELETE FROM legal_article_tags,
\* commit
TagDeleteRows ==
    /\ tag_pc = "scoring"
    /\ tag_run.scored = DOMAIN articles
    /\ tag_purged' = \E a \in Articles : \E k \in DOMAIN legal_article_tags[a] :
                         \/ a \notin DOMAIN legal_articles
                         \/ legal_article_tags[a][k].score = NoScore
    /\ legal_article_tags' = NoTags
    /\ tag_pc' = "deleted"
    /\ UNCHANGED <<legal_articles, articles, tag_scores, tag_done, tag_run, matVars,
                   article_embeddings, genVars, search_out, call>>

\* The process ends inside the loop of lines 107-111, after the INSERTs of
\* the first articles of tag_scores (dict order: the order of the SELECT of
\* line 56) and before the commit of line 112: the open transaction is
\* rolled back, the DELETE of line 102 stays committed.
TagInterrupt ==
    /\ tag_pc = "deleted"
    /\ \E n \in 1..(Cardinality(DOMAIN articles) - 1) :
          tag_done' = {a \in DOMAIN articles :
                          Cardinality({b \in DOMAIN articles : b <= a}) <= n}
    /\ tag_pc' = "idle"
    /\ UNCHANGED <<legal_articles, legal_article_tags, articles, tag_scores,
                   tag_purged, tag_run, matVars, article_embeddings, genVars,
                   search_out, call>>

\* The upstream acquisition process replaces the content of an article.
EditContent ==
    /\ \E a \in DOMAIN legal_articles, c \in Contents :
          /\ c # legal_articles[a]
          /\ legal_articles' = [legal_articles EXCEPT ![a] = c]
    /\ UNCHANGED <<tagVars, matVars, article_embeddings, genVars, search_out, call>>

\* An article is deleted from legal_articles (cleanup_database.py, lines
\* 98-102); sqlite3 does not enforce the foreign keys, the rows of the other
\* tables stay.
RemoveArticle ==
    /\ \E x \in DOMAIN legal_articles :
          legal_articles' = [a \in DOMAIN legal_articles \ {x} |-> legal_articles[a]]
    /\ UNCHANGED <<tagVars, matVars, article_embeddings, genVars, search_out, call>>

-----------------------------------------------------------------------------
(* tag_articles.py: keyword tagger *)

\* lines 5-19, in the order of the dict
TAG_KEYWORDS ==
    <<
      [tag |-> "labor", keywords |-> <<
          << "t", "r", "u", "d" >>,
          << "r", "a", "b", "o", "t", "n", "i", "k" >>,
          << "r", "a", "b", "o", "t", "o", "d", "a", "t", "e", "l" >>,
          << "z", "a", "p", "l", "a", "t", "a" >>,
          << "o", "t", "p", "u", "s", "k" >>
        >>],
      [tag |-> "social_security", keywords |-> <<
          << "o", "s", "i", "g", "u", "r", "ya", "v", "a", "n", "e" >>,
          << "p", "e", "n", "s", "i", "ya" >>,
          << "i", "n", "v", "a", "l", "i", "d", "n", "o", "s", "t" >>,
          << "o", "s", "i", "g", "u", "r", "i", "t", "e", "l", "e", "n" >>
        >>],
      [tag |-> "tax_procedure", keywords |-> <<
          << "d", "a", "n", "y", "k" >>,
          << "d", "a", "n", "y", "ch", "e", "n" >>,
          << "o", "s", "i", "g", "u", "r", "i", "t", "e", "l", "e", "n" >>,
          << "r", "e", "v", "i", "z", "i", "ya" >>,
          << "d", "e", "k", "l", "a", "r", "a", "c", "i", "ya" >>
        >>],
      [tag |-> "civil_procedure", keywords |-> <<
          << "i", "s", "k" >>, << "z", "a", "p", "o", "v", "e", "d" >>,
          << "s", "y", "d" >>, << "d", "e", "l", "o" >>,
          << "p", "r", "o", "c", "e", "d", "u", "r", "a" >>
        >>],
      [tag |-> "penal_substantive", keywords |-> <<
          << "p", "r", "e", "s", "t", "y", "p", "l", "e", "n", "i", "e" >>,
          << "n", "a", "k", "a", "z", "a", "n", "i", "e" >>,
          << "l", "i", "sh", "a", "v", "a", "n", "e", " ", "o", "t", " ", "s", "v", "o", "b", "o", "d", "a" >>,
          << "g", "l", "o", "b", "a" >>
        >>],
      [tag |-> "criminal_procedure", keywords |-> <<
          << "d", "o", "s", "y", "d", "e", "b", "n", "o" >>,
          << "o", "b", "v", "i", "n", "ya", "e", "m" >>,
          << "r", "a", "z", "s", "l", "e", "d", "v", "a", "n", "e" >>,
          << "s", "y", "d", "e", "b", "n", "o", " ", "p", "r", "o", "i", "z", "v", "o", "d", "s", "t", "v", "o" >>
        >>],
      [tag |-> "family", keywords |-> <<
          << "b", "r", "a", "k" >>, << "s", "y", "p", "r", "u", "g" >>,
          << "r", "o", "d", "i", "t", "e", "l" >>,
          << "o", "s", "i", "n", "o", "v", "ya", "v", "a", "n", "e" >>,
          << "s", "e", "m", "e", "j", "s", "t", "v", "o" >>
        >>],
      [tag |-> "maritime", keywords |-> <<
          << "k", "o", "r", "a", "b" >>,
          << "p", "l", "a", "v", "a", "n", "e" >>,
          << "m", "o", "r", "s", "k", "o" >>,
          << "p", "r", "i", "s", "t", "a", "n", "i", "sht", "e" >>
        >>],
      [tag |-> "private_international_law", keywords |-> <<
          << "p", "r", "i", "l", "o", "zh", "i", "m", "o", " ", "p", "r", "a", "v", "o" >>,
          << "k", "o", "l", "i", "z", "i", "ya" >>,
          << "m", "e", "zh", "d", "u", "n", "a", "r", "o", "d", "n", "o", " ", "ch", "a", "s", "t", "n", "o" >>,
          << "k", "o", "m", "p", "e", "t", "e", "n", "t", "n", "o", "s", "t" >>
        >>],
      [tag |-> "insurance", keywords |-> <<
          << "z", "a", "s", "t", "r", "a", "h", "o", "v", "k", "a" >>,
          << "z", "a", "s", "t", "r", "a", "h", "o", "v", "a", "t", "e", "l" >>,
          << "p", "r", "e", "m", "i", "ya" >>,
          << "z", "a", "s", "t", "r", "a", "h", "o", "v", "a", "n" >>
        >>],
      [tag |-> "elections", keywords |-> <<
          << "i", "z", "b", "o", "r" >>,
          << "k", "a", "m", "p", "a", "n", "i", "ya" >>,
          << "g", "l", "a", "s", "u", "v", "a", "n", "e" >>,
          << "s", "e", "k", "c", "i", "ya" >>
        >>],
      [tag |-> "ethics_lawyer", keywords |-> <<
          << "a", "d", "v", "o", "k", "a", "t" >>,
          << "e", "t", "i", "ch", "e", "n" >>,
          << "p", "o", "v", "e", "d", "e", "n", "i", "e" >>
        >>],
      [tag |-> "ethics_medical", keywords |-> <<
          << "d", "e", "n", "t", "a", "l", "n", "a" >>,
          << "f", "a", "r", "m", "a", "c", "e", "v", "t" >>,
          << "m", "e", "d", "i", "c", "i", "n", "s", "k", "a" >>,
          << "e", "t", "i", "k", "a" >>
        >>]
    >>

MaxKeywordTextLen == 4000                \* content[:4000]

Digits == {"0", "1", "2", "3", "4", "5", "6", "7", "8", "9"}

\* normalize, lines 28-32
normalize(text) ==
    LET t == LowerText(text)
    IN  List([k \in 1..Len(t) |-> IF t[k] = "j" THEN "i" ELSE t[k]])

\* \w of a lower-cased text
IsWordChar(c) == c \in Letters \cup Digits \cup {"_"}

\* line 59: re.search(r"\b" + re.escape(kw) + r"\b", text); every keyword
\* starts and ends with a letter
KeywordOccurs(kw, text) ==
    \E p \in 1..(Len(text) - Len(kw) + 1) :
        /\ SubSeq(text, p, p + Len(kw) - 1) = kw
        /\ p = 1 \/ ~IsWordChar(text[p - 1])
        /\ p + Len(kw) > Len(text) \/ ~IsWordChar(text[p + Len(kw)])

\* lines 53-62: the tags added for one article; the rows have no score
KeywordTags(content) ==
    LET text == normalize(SubSeq(content, 1, Min(Len(content), MaxKeywordTextLen)))
        hit  == SelectSeq(TAG_KEYWORDS,
                    LAMBDA e : \E k \in DOMAIN e.keywords :
                                   KeywordOccurs(e.keywords[k], text))
    IN  List([k \in DOMAIN hit |-> [tag |-> hit[k].tag, score |-> NoScore]])

\* tag_articles, lines 35-70 (one commit for a corpus below batch_size).  The
\* tagger adds rows to those of the table; it runs when the table holds no
\* row of an earlier run of it.
KeywordTag ==
    /\ tag_pc = "idle"
    /\ \A a \in Articles : \A k \in DOMAIN legal_article_tags[a] :
          legal_article_tags[a][k].score # NoScore
    /\ legal_article_tags' =
          [a \in Articles |->
              IF a \in DOMAIN legal_articles
              THEN legal_article_tags[a] \o KeywordTags(legal_articles[a])
              ELSE legal_article_tags[a]]
    /\ UNCHANGED <<legal_articles, articles, tag_scores, tag_pc, tag_purged, tag_done, tag_run,
                   matVars, article_embeddings, genVars, search_out, call>>

-----------------------------------------------------------------------------
(* create_ingestion_view.py: ingestion materializer *)

\* pairs.sort(key=(score is not None, score), reverse=True) is SortDesc: a
\* pair without score has the score NoScore, below every score.

\* a / b rounded to the nearest integer, ties to even (a >= 0, b > 0)
RoundDiv(a, b) ==
    LET q == a \div b
        r == a % b
    IN  IF 2 * r > b \/ (2 * r = b /\ q % 2 = 1) THEN q + 1 ELSE q

\* line 29: t.tag || ':' || COALESCE(t.score, '') writes a REAL with
\* TextDigits significant decimal digits (15 in SQLite, for a significand
\* of 53 bits)
TextDigits == 2

\* The number of decimal digits of the integer part of x / 1024 (at least 1)
RECURSIVE IntegerDigits(_, _)
IntegerDigits(x, p) == IF x < 1024 * (10 ^ p) THEN p ELSE IntegerDigits(x, p + 1)

\* The text of a score: [m, k] stands for the decimal number m / 10^k when
\* k >= 0 and m * 10^(-k) when k < 0; the text of NULL is '' (NoScore)
ScoreText(score) ==
    IF score = NoScore THEN [m |-> NoScore, k |-> 0]
    ELSE LET k == TextDigits - IntegerDigits(score, 1)
         IN  IF k >= 0 THEN [m |-> RoundDiv(score * (10 ^ k), 1024), k |-> k]
             ELSE [m |-> RoundDiv(score, 1024 * (10 ^ (-k))), k |-> k]

\* lines 45-48: float(score) if score else None
ParseScore(text) ==
    IF text.m = NoScore THEN NoScore
    ELSE IF text.k >= 0 THEN FloatRound(RoundDiv(text.m * 1024, 10 ^ text.k))
    ELSE FloatRound(text.m * (10 ^ (-text.k)) * 1024)

\* lines 40-49: the (tag, score) pairs parsed from the GROUP_CONCAT column
ParsePairs(tags) ==
    [k \in DOMAIN tags |->
        [tag |-> tags[k].tag, score |-> ParseScore(ScoreText(tags[k].score))]] \o << >>

IngestionRowUnsorted(aid, content, tags) ==
    LET tag_list == ParsePairs(tags)
    IN  [document_id     |-> DocumentOf[aid],
         content         |-> content,
         tags            |-> tag_list,
         tag_primary     |-> IF tag_list = << >> THEN NULL ELSE tag_list[1].tag,
         tag_vector_hint |-> [k \in DOMAIN tag_list |-> tag_list[k].tag] \o << >>]

\* one row of article_ingestion, lines 36-57
IngestionRow(aid, content, tags) ==
    LET tag_list == SortDesc(ParsePairs(tags))
    IN  [document_id     |-> DocumentOf[aid],
         content         |-> content,
         tags            |-> tag_list,
         tag_primary     |-> IF tag_list = << >> THEN NULL ELSE tag_list[1].tag,
         tag_vector_hint |-> [k \in DOMAIN tag_list |-> tag_list[k].tag] \o << >>]

NoRows == [a \in {} |-> 0]

\* line 9: DROP TABLE IF EXISTS article_ingestion (DDL, committed at once)
MatDrop ==
    /\ mat_pc = "idle"
    /\ article_ingestion' = [exists |-> FALSE, rows |-> NoRows]
    /\ mat_purged' = \E a \in DOMAIN article_ingestion.rows : a \notin DOMAIN legal_articles
    /\ mat_done' = {}
    /\ mat_pc' = "dropped"
    /\ UNCHANGED <<legal_articles, tagVars, article_embeddings, genVars, search_out, call>>

\* lines 10-24: CREATE TABLE article_ingestion (DDL, committed at once)
MatCreate ==
    /\ mat_pc = "dropped"
    /\ article_ingestion' = [exists |-> TRUE, rows |-> NoRows]
    /\ mat_pc' = "created"
    /\ UNCHANGED <<mat_purged, mat_done>>
    /\ UNCHANGED <<legal_articles, tagVars, article_embeddings, genVars, search_out, call>>

\* lines 27-32: GROUP_CONCAT has no ORDER BY; it concatenates the tag rows of
\* an article in the order the scan visits them, which SQLite leaves open
\* (insertion order, or its reverse under reverse_unordered_selects).
GroupConcatOrders == {"forward", "reverse"}

GroupConcat(tags, order) ==
    IF order = "forward" THEN tags
    ELSE [k \in DOMAIN tags |-> tags[Len(tags) + 1 - k]] \o << >>

\* lines 27-63 with JOIN for LEFT JOIN: only the articles that have a tag
MatInsertInnerJoin ==
    /\ mat_pc = "created"
    /\ \E order \in GroupConcatOrders :
         article_ingestion' =
          [exists |-> TRUE,
           rows   |-> [a \in {x \in DOMAIN legal_articles : legal_article_tags[x] # << >>} |->
                         IngestionRow(a, legal_articles[a],
                                      GroupConcat(legal_article_tags[a], order))]]
    /\ mat_pc' = "idle"
    /\ UNCHANGED <<mat_purged, mat_done>>
    /\ UNCHANGED <<legal_articles, tagVars, article_embeddings, genVars, search_out, call>>

\* lines 27-63: SELECT the articles with their tags, build the rows,
\* executemany INSERT, commit.
MatInsert ==
    /\ mat_pc = "created"
    /\ \E order \in GroupConcatOrders :
         article_ingestion' =
          [exists |-> TRUE,
           rows   |-> [a \in DOMAIN legal_articles |->
                         IngestionRow(a, legal_articles[a],
                                      GroupConcat(legal_article_tags[a], order))]]
    /\ mat_pc' = "idle"
    /\ UNCHANGED <<mat_purged, mat_done>>
    /\ UNCHANGED <<legal_articles, tagVars, article_embeddings, genVars, search_out, call>>

\* The process ends inside the loop of lines 36-57 or inside the
\* executemany of lines 59-62, after the first articles of the SELECT and
\* before the commit of line 63: nothing of the run's rows is committed, the
\* DROP and CREATE stay.
MatInterrupt ==
    /\ mat_pc = "created"
    /\ \E n \in 1..(Cardinality(DOMAIN legal_articles) - 1) :
          mat_done' = {a \in DOMAIN legal_articles :
                          Cardinality({b \in DOMAIN legal_articles : b <= a}) <= n}
    /\ mat_pc' = "idle"
    /\ UNCHANGED <<article_ingestion, mat_purged>>
    /\ UNCHANGED <<legal_articles, tagVars, article_embeddings, genVars, search_out, call>>

-----------------------------------------------------------------------------
(* generate_embeddings.py: embedding generator *)

RECURSIVE AscendingSeq(_)
AscendingSeq(S) ==
    IF S = {} THEN << >>
    ELSE LET m == CHOOSE x \in S : \A y \in S : x <= y
         IN  << m >> \o AscendingSeq(S \ {m})

\* The WHERE clause of get_pending_articles, lines 101-104 and 112:
\* LEFT JOIN ... WHERE ae.id IS NULL OR ae.content_hash != sha256("")
IsSelected(embeddings, aid) ==
    \/ aid \notin DOMAIN embeddings
    \/ embeddings[aid].content_hash # compute_content_hash(<< >>)

PendingIds(ingestion, embeddings) ==
    {a \in DOMAIN ingestion.rows : IsSelected(embeddings, a)}

TagNames(tags) == [k \in 1..Min(Len(tags), 5) |-> tags[k].tag]

\* lines 115-126: content + primary tag + top 5 tag names
EmbeddingText(row) ==
    row.content
      \o (IF row.tag_primary # NULL THEN << "tag_primary", row.tag_primary >> ELSE << >>)
      \o (IF TagNames(row.tags) # << >> THEN << "tags" >> \o TagNames(row.tags) ELSE << >>)

\* lines 128-133: the dict appended for one selected row.  orig is the
\* content that was read (not a field of the dict; it is carried along to
\* state what the stored hash belongs to).
PendingEntryHashesText(aid, row) ==
    [article_id   |-> aid,
     document_id  |-> row.document_id,
     content      |-> EmbeddingText(row),
     content_hash |-> compute_content_hash(EmbeddingText(row)),
     orig         |-> row.content]

PendingEntry(aid, row) ==
    [article_id   |-> aid,
     document_id  |-> row.document_id,
     content      |-> EmbeddingText(row),
     content_hash |-> compute_content_hash(row.content),
     orig         |-> row.content]

\* get_pending_articles(conn) without LIMIT, rows in article_id order
get_pending_articles(ingestion, embeddings) ==
    LET ids == AscendingSeq(PendingIds(ingestion, embeddings))
    IN  [k \in 1..Len(ids) |-> PendingEntry(ids[k], ingestion.rows[ids[k]])]

\* The row written by the INSERT OR REPLACE of store_embedding, lines 143-151.
\* src records the call the row was written by.
EmbeddingRow(document_id, vector, content_hash, src) ==
    [document_id   |-> document_id,
     model_name    |-> EMBEDDING_MODEL,
     embedding_dim |-> EMBEDDING_DIM,
     vector        |-> vector,
     norm          |-> compute_l2_norm(vector),
     content_hash  |-> content_hash,
     src           |-> src]

\* an upsert that rewrites the vector of an existing row and leaves its norm
UpsertVectorOnly(embeddings, aid, row) ==
    [a \in DOMAIN embeddings \cup {aid} |->
        IF a = aid
        THEN IF aid \in DOMAIN embeddings
             THEN [row EXCEPT !.norm = embeddings[aid].norm]
             ELSE row
        ELSE embeddings[a]]

\* INSERT OR REPLACE ... ; commit: the row keyed by article_id is replaced whole
Upsert(embeddings, aid, row) ==
    [a \in DOMAIN embeddings \cup {aid} |-> IF a = aid THEN row ELSE embeddings[a]]

\* store_embedding writing into a table emptied first (DELETE, then INSERT)
store_embedding_after_delete(embeddings, aid, document_id, vector, content_hash, src) ==
    Upsert(NoRows, aid, EmbeddingRow(document_id, vector, content_hash, src))

\* store_embedding, lines 138-153
store_embedding(embeddings, aid, document_id, vector, content_hash, src) ==
    Upsert(embeddings, aid, EmbeddingRow(document_id, vector, content_hash, src))

\* process_batch storing the vector before it checks the dimension
process_one_store_first(embeddings, article, vector) ==
    IF Truthy(vector)
    THEN [table |-> store_embedding(embeddings, article.article_id,
                        article.document_id, vector, article.content_hash,
                        [content |-> article.orig, text |-> article.content,
                         vector |-> vector, content_hash |-> article.content_hash]),
          ok    |-> DimensionOk(vector)]
    ELSE [table |-> embeddings, ok |-> FALSE]

\* One iteration of the loop of process_batch, lines 173-185, given the
\* value get_embedding returned: the table afterwards and whether the
\* article counts as a success.
process_one(embeddings, article, vector) ==
    IF Truthy(vector)
    THEN IF DimensionOk(vector)
         THEN [table |-> store_embedding(embeddings, article.article_id,
                             article.document_id, vector, article.content_hash,
                             [content |-> article.orig, text |-> article.content,
                              vector |-> vector, content_hash |-> article.content_hash]),
               ok    |-> TRUE]
         ELSE [table |-> embeddings, ok |-> FALSE]
    ELSE [table |-> embeddings, ok |-> FALSE]

\* batch = pending[start_idx:start_idx + BATCH_SIZE]
Batch == SubSeq(pending, start_idx, Min(start_idx + BATCH_SIZE - 1, Len(pending)))

NotRunning == gen_pc \in {"idle", "done", "no_model", "crashed"}

\* main without lines 198-201: the scan runs and every pending article is
\* counted as a failure of get_embedding (lines 173, 183-185)
MainNoModelPerItem ==
    /\ NotRunning
    /\ gen_pc # "no_model"
    /\ article_ingestion.exists
    /\ gen_pc' = "no_model"
    /\ pending' = << >>
    /\ start_idx' = 1 /\ i' = 1
    /\ success' = 0 /\ failure' = 0 /\ total_success' = 0
    /\ total_failure' = Len(get_pending_articles(article_ingestion, article_embeddings))
    /\ raised' = FALSE
    /\ UNCHANGED <<legal_articles, tagVars, matVars, article_embeddings, txn,
                   search_out, call>>

\* main, lines 198-201: get_model() raises ImportError, main returns.
MainNoModel ==
    /\ NotRunning
    /\ gen_pc # "no_model"
    /\ gen_pc' = "no_model"
    /\ pending' = << >>
    /\ start_idx' = 1 /\ i' = 1
    /\ success' = 0 /\ failure' = 0 /\ total_success' = 0 /\ total_failure' = 0
    /\ raised' = FALSE
    /\ UNCHANGED <<legal_articles, tagVars, matVars, article_embeddings, txn,
                   search_out, call>>

\* main, lines 203-217: the model is loaded; scan for pending articles.  The
\* SELECT raises OperationalError when article_ingestion does not exist.
MainScan ==
    /\ NotRunning
    /\ start_idx' = 1 /\ i' = 1
    /\ success' = 0 /\ failure' = 0 /\ total_success' = 0 /\ total_failure' = 0
    /\ IF ~article_ingestion.exists
       THEN /\ gen_pc' = "crashed"
            /\ raised' = FALSE
            /\ pending' = << >>
       ELSE /\ pending' = get_pending_articles(article_ingestion, article_embeddings)
            /\ raised' = FALSE
            /\ gen_pc' = IF pending' = << >> THEN "done" ELSE "batch"
    /\ UNCHANGED <<legal_articles, tagVars, matVars, article_embeddings, txn,
                   search_out, call>>

\* process_batch, lines 165-185: one article of the batch
ProcessArticle ==
    /\ gen_pc = "batch"
    /\ i <= Len(Batch)
    /\ \E outcome \in Outcomes :
          LET article == Batch[i]
              got     == get_embedding(article.content, outcome)
              res     == process_one(article_embeddings, article, got.vector)
          IN  IF got.raised
              THEN /\ raised' = TRUE
                   /\ gen_pc' = "crashed"
                   /\ UNCHANGED <<article_embeddings, i, success, failure>>
              ELSE /\ article_embeddings' = res.table
                   /\ success' = IF res.ok THEN success + 1 ELSE success
                   /\ failure' = IF res.ok THEN failure ELSE failure + 1
                   /\ i' = i + 1
                   /\ UNCHANGED <<raised, gen_pc>>
    /\ UNCHANGED <<legal_articles, tagVars, matVars, pending, start_idx,
                   total_success, total_failure, txn, search_out, call>>

\* process_batch returns; main, lines 219-229: add the counts, next batch or end
BatchReturn ==
    /\ gen_pc = "batch"
    /\ i > Len(Batch)
    /\ total_success' = total_success + success
    /\ total_failure' = total_failure + failure
    /\ IF start_idx + BATCH_SIZE <= Len(pending)
       THEN /\ start_idx' = start_idx + BATCH_SIZE
            /\ i' = 1 /\ success' = 0 /\ failure' = 0
            /\ UNCHANGED <<gen_pc, pending>>
       ELSE /\ gen_pc' = "done"          \* summary printed, the process ends
            /\ pending' = << >>
            /\ start_idx' = 1
            /\ i' = 1 /\ success' = 0 /\ failure' = 0
    /\ UNCHANGED <<legal_articles, tagVars, matVars, article_embeddings,
                   raised, txn, search_out, call>>

-----------------------------------------------------------------------------
(* semantic_search.py: similarity search *)

NoDocument == -1                   \* document_id=None

RECURSIVE Dot(_, _)
Dot(v, w) == IF v = << >> THEN 0 ELSE Head(v) * Head(w) + Dot(Tail(v), Tail(w))

Abs(x) == IF x < 0 THEN -x ELSE x

\* cosine_similarity, lines 43-56, for vectors of equal length: the exact
\* fraction n / d (d > 0); 0 when a norm is 0.
cosine_similarity(vec1, vec2, norm1, norm2) ==
    IF norm1 = 0 \/ norm2 = 0
    THEN [n |-> 0, d |-> 1]
    ELSE [n |-> Dot(vec1, vec2), d |-> norm1 * norm2]

\* floor(a * 10^k / d) and the remainder, by long division
RECURSIVE Expand(_, _, _)
Expand(a, d, k) ==
    IF k = 0 THEN [f |-> a \div d, r |-> a % d]
    ELSE LET p == Expand(a, d, k - 1)
         IN  [f |-> p.f * 10 + (p.r * 10) \div d, r |-> (p.r * 10) % d]

\* line 117 with ">=" for "<": the records at or above the threshold are
\* the ones skipped
SimBelowInverted(sim, min5) ==
    LET e == Expand(Abs(sim.n), sim.d, 5)
    IN  IF sim.n >= 0 THEN e.f >= min5
        ELSE ~((e.f > -min5) \/ (e.f = -min5 /\ e.r > 0))

\* line 117: similarity < min_similarity, min_similarity given in 1/100000
SimBelow(sim, min5) ==
    LET e == Expand(Abs(sim.n), sim.d, 5)
    IN  IF sim.n >= 0 THEN e.f < min5
        ELSE (e.f > -min5) \/ (e.f = -min5 /\ e.r > 0)

\* round(similarity, 4), in 1/10000 (ties to even)
Round4(sim) ==
    LET e    == Expand(Abs(sim.n), sim.d, 5)
        q    == e.f \div 10
        last == e.f % 10
        up   == \/ last > 5
                \/ last = 5 /\ e.r > 0
                \/ last = 5 /\ e.r = 0 /\ q % 2 = 1
        mag  == IF up THEN q + 1 ELSE q
    IN  IF sim.n >= 0 THEN mag ELSE -mag

\* results.sort(key=similarity, reverse=True): stable, descending
RECURSIVE InsertBySimilarity(_, _)
InsertBySimilarity(r, sorted) ==
    IF sorted = << >> THEN << r >>
    ELSE IF Head(sorted).similarity >= r.similarity
         THEN << Head(sorted) >> \o InsertBySimilarity(r, Tail(sorted))
         ELSE << r >> \o sorted

RECURSIVE SortBySimilarity(_)
SortBySimilarity(rs) ==
    IF rs = << >> THEN << >>
    ELSE InsertBySimilarity(rs[Len(rs)], SortBySimilarity(SubSeq(rs, 1, Len(rs) - 1)))

\* if document_id: ... WHERE ae.document_id = ?   (lines 95-98)
InScope(row_document_id, document_id) ==
    IF document_id # NoDocument /\ document_id # 0
    THEN row_document_id = document_id
    ELSE TRUE

\* The rows of the join of article_embeddings, article_ingestion and
\* legal_documents, lines 77-98.
JoinedIds(ingestion, embeddings, document_id) ==
    {a \in DOMAIN embeddings \cap DOMAIN ingestion.rows :
        /\ embeddings[a].document_id \in Documents
        /\ InScope(embeddings[a].document_id, document_id)}

\* lines 113-140 for one row: the result dict (sim is the unrounded value,
\* kept to state properties; it is not a field of the dict)
ResultOf(aid, row, query_vector, query_norm) ==
    LET sim == cosine_similarity(query_vector, row.vector, query_norm, row.norm)
    IN  [article_id  |-> aid,
         document_id |-> row.document_id,
         similarity  |-> Round4(sim),
         sim         |-> sim]

RECURSIVE Collect(_, _, _, _, _)
Collect(order, embeddings, query_vector, query_norm, min_similarity) ==
    IF order = << >> THEN << >>
    ELSE LET aid  == Head(order)
             row  == embeddings[aid]
             sim  == cosine_similarity(query_vector, row.vector, query_norm, row.norm)
             rest == Collect(Tail(order), embeddings, query_vector, query_norm,
                             min_similarity)
         IN  IF SimBelow(sim, min_similarity) THEN rest
             ELSE << ResultOf(aid, row, query_vector, query_norm) >> \o rest

\* search_similar_articles, lines 73-146; order is the order in which the
\* SELECT (which has no ORDER BY) delivers the joined rows.
search_similar_articles(ingestion, embeddings, query_vector, top_k, document_id, min_similarity, order) ==
    IF ~ingestion.exists
    THEN [raised |-> TRUE, results |-> << >>]          \* OperationalError
    ELSE IF \E k \in 1..Len(order) : Len(embeddings[order[k]].vector) # Len(query_vector)
    THEN [raised |-> TRUE, results |-> << >>]          \* ValueError, line 41
    ELSE LET query_norm == Sqrt(SumSq(query_vector))
             results    == SortBySimilarity(
                               Collect(order, embeddings, query_vector, query_norm,
                                       min_similarity))
         IN  [raised |-> FALSE, results |-> SubSeq(results, 1, Min(top_k, Len(results)))]

\* line 146: what the caller of search_similar_articles gets is the list
ReturnValue(out) == out.results

\* What get_model() does in search_by_text: returns the model, or raises
\* (sentence-transformers not installed, model files not loadable).
ModelOutcomes == {"ok", "unloadable"}

\* search_by_text, lines 149-171; nothing is caught
search_by_text(ingestion, embeddings, query_text, outcome, top_k, document_id, min_similarity, order) ==
    IF outcome # "ok"
    THEN [raised |-> TRUE, results |-> << >>, query_vector |-> << >>]
    ELSE LET query_vector == Encode(SubSeq(query_text, 1, Min(Len(query_text), MaxTextLen)))
             out == search_similar_articles(ingestion, embeddings, query_vector,
                                            top_k, document_id, min_similarity, order)
         IN  [raised |-> out.raised, results |-> out.results,
              query_vector |-> query_vector]

\* retrieve_relevant_laws (rag_utils.py), lines 40-69, applied to the outcome
\* of its call of search_by_text: the formatted list, [] after an exception
retrieve_relevant_laws(out) ==
    IF out.raised THEN << >>
    ELSE [k \in DOMAIN out.results |->
             [similarity |-> out.results[k].similarity,
              article_id |-> out.results[k].article_id]]

\* Inputs of the modelled searches
MaxTopK == 2
QueryVectors == {Pad(<< 0, 1 >>, EMBEDDING_DIM), Pad(<< 0, 0 >>, EMBEDDING_DIM),
                 Pad(<< 0, 1 >>, EMBEDDING_DIM - 1)}
Thresholds == {0, 38461, 50000}                 \* 0.0, 0.38461, 0.5
Scopes == {NoDocument, 0, 1}

Orders(S) == {o \in [1..Cardinality(S) -> S] : \A a \in S : \E k \in DOMAIN o : o[k] = a}

NoTxn == [open |-> FALSE, table |-> NoRows]

NoCall == [fn |-> "none", arg |-> << >>, result |-> << >>]

NoSearch == [called |-> FALSE, query_vector |-> << >>, top_k |-> 0,
             document_id |-> NoDocument, min_similarity |-> 0,
             raised |-> FALSE, results |-> << >>]

Search ==
    /\ \E q \in QueryVectors, k \in 0..MaxTopK, d \in Scopes, m \in Thresholds :
         \E order \in Orders(JoinedIds(article_ingestion, article_embeddings, d)) :
            LET out == search_similar_articles(article_ingestion, article_embeddings,
                                               q, k, d, m, order)
            IN  search_out' = [called |-> TRUE, query_vector |-> q, top_k |-> k,
                               document_id |-> d, min_similarity |-> m,
                               raised |-> out.raised, results |-> out.results]
    /\ UNCHANGED <<legal_articles, tagVars, matVars, article_embeddings, genVars, call>>

\* A call of search_by_text without document_id, as retrieve_relevant_laws
\* makes it (rag_utils.py, lines 43-47).
SearchByText ==
    /\ \E t \in Contents, o \in ModelOutcomes, k \in 0..MaxTopK, m \in Thresholds :
         \E order \in Orders(JoinedIds(article_ingestion, article_embeddings, NoDocument)) :
            LET out == search_by_text(article_ingestion, article_embeddings,
                                      t, o, k, NoDocument, m, order)
            IN  search_out' = [called |-> TRUE, query_vector |-> out.query_vector,
                               top_k |-> k, document_id |-> NoDocument,
                               min_similarity |-> m,
                               raised |-> out.raised, results |-> out.results]
    /\ UNCHANGED <<legal_articles, tagVars, matVars, article_embeddings, genVars, call>>

\* A direct call of the public store_embedding by another caller (as in
\* test_embedding_pipeline.test_embedding_generation, lines 60-71, which reads
\* the content from article_ingestion and passes its hash).
ApiVectors == {Pad(<< 3, 4 >>, EMBEDDING_DIM), Pad(<< 3, 4 >>, EMBEDDING_DIM + 1)}

DirectStore ==
    /\ NotRunning
    /\ \E a \in DOMAIN article_ingestion.rows, v \in ApiVectors :
         LET c == article_ingestion.rows[a].content
             h == compute_content_hash(c)
         IN  article_embeddings' =
                 store_embedding(article_embeddings, a, DocumentOf[a], v, h,
                                 [content |-> c, text |-> c, vector |-> v,
                                  content_hash |-> h])
    /\ UNCHANGED <<legal_articles, tagVars, matVars, genVars, search_out, call>>

\* The loop of process_batch in the steps other connections can tell apart.
\* process_batch, line 173: get_embedding is called; the generator waits for
\* the model.
EncodeCall ==
    /\ gen_pc = "batch"
    /\ i <= Len(Batch)
    /\ gen_pc' = "encoding"
    /\ UNCHANGED <<legal_articles, tagVars, matVars, article_embeddings, pending,
                   start_idx, i, success, failure, total_success, total_failure,
                   raised, txn, search_out, call>>

\* lines 173-185: get_embedding returns.  A vector of the declared length goes
\* to store_embedding, whose INSERT OR REPLACE (lines 143-151) opens the
\* write transaction of the connection; the row is not yet committed.
EncodeReturn ==
    /\ gen_pc = "encoding"
    /\ \E outcome \in Outcomes :
          LET article == Batch[i]
              got     == get_embedding(article.content, outcome)
              base    == IF txn.open THEN txn.table ELSE article_embeddings
              res     == process_one(base, article, got.vector)
          IN  IF got.raised
              THEN /\ raised' = TRUE
                   /\ gen_pc' = "crashed"
                   /\ UNCHANGED <<i, success, failure, txn>>
              ELSE IF res.ok
              THEN /\ txn' = [open |-> TRUE, table |-> res.table]
                   /\ gen_pc' = "upsert"
                   /\ UNCHANGED <<i, success, failure, raised>>
              ELSE /\ failure' = failure + 1
                   /\ i' = i + 1
                   /\ gen_pc' = "batch"
                   /\ UNCHANGED <<success, raised, txn>>
    /\ UNCHANGED <<legal_articles, tagVars, matVars, article_embeddings, pending,
                   start_idx, total_success, total_failure, search_out, call>>

\* store_embedding without the commit of line 153: the transaction stays open
StoreNoCommit ==
    /\ gen_pc = "upsert"
    /\ success' = success + 1
    /\ i' = i + 1
    /\ gen_pc' = "batch"
    /\ UNCHANGED <<legal_articles, tagVars, matVars, article_embeddings, pending,
                   start_idx, total_success, total_failure, failure, raised, txn,
                   search_out, call>>

\* store_embedding, line 153: conn.commit(); process_batch, lines 178-179
StoreCommit ==
    /\ gen_pc = "upsert"
    /\ article_embeddings' = txn.table
    /\ txn' = NoTxn
    /\ success' = success + 1
    /\ i' = i + 1
    /\ gen_pc' = "batch"
    /\ UNCHANGED <<legal_articles, tagVars, matVars, pending, start_idx,
                   total_success, total_failure, failure, raised, search_out, call>>

-----------------------------------------------------------------------------

Init ==
    /\ legal_articles \in [Articles -> Contents]
    /\ legal_article_tags = NoTags
    /\ tag_pc = "idle"
    /\ articles = NoRows
    /\ tag_scores = NoTags
    /\ tag_purged = FALSE
    /\ tag_done = {}
    /\ tag_run = NoRun
    /\ article_ingestion = [exists |-> FALSE, rows |-> NoRows]
    /\ mat_pc = "idle"
    /\ mat_purged = FALSE
    /\ mat_done = {}
    /\ article_embeddings = NoRows
    /\ gen_pc = "idle"
    /\ pending = << >>
    /\ start_idx = 1 /\ i = 1
    /\ success = 0 /\ failure = 0 /\ total_success = 0 /\ total_failure = 0
    /\ raised = FALSE
    /\ txn = NoTxn
    /\ search_out = NoSearch
    /\ call = NoCall

Next ==
    \/ EditContent
    \/ TagDelete
    \/ TagInsert
    \/ MatDrop
    \/ MatCreate
    \/ MatInsert
    \/ MainNoModel
    \/ MainScan
    \/ ProcessArticle
    \/ BatchReturn

Spec == Init /\ [][Next]_vars

\* The pipeline together with direct callers of store_embedding.
NextApi ==
    \/ DirectStore
    \/ MatDrop
    \/ MatCreate
    \/ MatInsert
    \/ MainScan
    \/ ProcessArticle
    \/ BatchReturn

SpecApi == Init /\ [][NextApi]_vars

\* Searches over a materialized corpus with stored embeddings.
SearchVectors == {<< 0, 1 >>, << 402, 40400 >>, << 12, 5 >>, << 0, 0 >>, << 0, -1 >>}

\* The stores holding the vectors vs for articles with the given contents
StoreOf(vs, contents) ==
    [a \in DOMAIN vs |->
        LET v == Pad(vs[a], EMBEDDING_DIM)
            h == compute_content_hash(contents[a])
        IN  EmbeddingRow(DocumentOf[a], v, h,
                         [content |-> contents[a], text |-> contents[a],
                          vector |-> v, content_hash |-> h])]

Stores(contents) ==
    {StoreOf(vs, contents) : vs \in UNION {[S -> SearchVectors] : S \in SUBSET Articles}}

InitSearch ==
    /\ legal_articles = [a \in Articles |-> IF a = 1 THEN DocLabor ELSE << >>]
    /\ legal_article_tags = NoTags
    /\ tag_pc = "idle"
    /\ articles = NoRows
    /\ tag_scores = NoTags
    /\ tag_purged = FALSE
    /\ tag_done = {}
    /\ tag_run = NoRun
    /\ article_ingestion =
         [exists |-> TRUE,
          rows   |-> [a \in Articles |-> IngestionRow(a, legal_articles[a], << >>)]]
    /\ mat_pc = "idle"
    /\ mat_purged = FALSE
    /\ mat_done = {}
    /\ article_embeddings \in Stores(legal_articles)
    /\ gen_pc = "idle"
    /\ pending = << >>
    /\ start_idx = 1 /\ i = 1
    /\ success = 0 /\ failure = 0 /\ total_success = 0 /\ total_failure = 0
    /\ raised = FALSE
    /\ txn = NoTxn
    /\ search_out = NoSearch
    /\ call = NoCall

NextSearch ==
    \/ Search
    \/ SearchByText

SpecSearch == InitSearch /\ [][NextSearch]_vars

\* Tag rebuilds, keyword tagger runs, edits and removals of articles over a
\* corpus of texts with several, tied and no keywords.
InitTag ==
    /\ legal_articles \in [Articles -> TagContents]
    /\ legal_article_tags = NoTags
    /\ tag_pc = "idle"
    /\ articles = NoRows
    /\ tag_scores = NoTags
    /\ tag_purged = FALSE
    /\ tag_done = {}
    /\ tag_run = NoRun
    /\ article_ingestion = [exists |-> FALSE, rows |-> NoRows]
    /\ mat_pc = "idle"
    /\ mat_purged = FALSE
    /\ mat_done = {}
    /\ article_embeddings = NoRows
    /\ gen_pc = "idle"
    /\ pending = << >>
    /\ start_idx = 1 /\ i = 1
    /\ success = 0 /\ failure = 0 /\ total_success = 0 /\ total_failure = 0
    /\ raised = FALSE
    /\ txn = NoTxn
    /\ search_out = NoSearch
    /\ call = NoCall

NextTag ==
    \/ EditContent
    \/ RemoveArticle
    \/ KeywordTag
    \/ TagDelete
    \/ TagInsert

SpecTag == InitTag /\ [][NextTag]_vars

\* Materializer runs between tag rebuilds, keyword tagger runs, edits and
\* removals of articles.
NextMat ==
    \/ EditContent
    \/ RemoveArticle
    \/ KeywordTag
    \/ TagDelete
    \/ TagInsert
    \/ MatDrop
    \/ MatCreate
    \/ MatInsert

SpecMat == Init /\ [][NextMat]_vars

\* Materializer runs between tag rebuilds and keyword tagger runs over the
\* corpus of texts with several, tied and no keywords.
NextIngest ==
    \/ KeywordTag
    \/ TagDelete
    \/ TagInsert
    \/ MatDrop
    \/ MatCreate
    \/ MatInsert

SpecIngest == InitTag /\ [][NextIngest]_vars

\* Tag rebuilds and materializer runs that may end inside their loops.
NextInterrupt ==
    \/ TagDelete
    \/ TagInsert
    \/ TagInterrupt
    \/ MatDrop
    \/ MatCreate
    \/ MatInsert
    \/ MatInterrupt

SpecInterrupt == InitTag /\ [][NextInterrupt]_vars

\* The generator in the steps of its loop, between materializer runs and
\* edits of articles.
NextLock ==
    \/ EditContent
    \/ MatDrop
    \/ MatCreate
    \/ MatInsert
    \/ MainScan
    \/ EncodeCall
    \/ EncodeReturn
    \/ StoreCommit
    \/ BatchReturn

SpecLock == Init /\ [][NextLock]_vars

\* Tag rebuilds in the steps of their loops, between edits and removals of
\* articles.
NextPass ==
    \/ EditContent
    \/ RemoveArticle
    \/ TagLoad
    \/ DfStep
    \/ DfDone
    \/ ScoreStep
    \/ TagDeleteRows
    \/ TagInsert

SpecPass == InitTag /\ [][NextPass]_vars

\* The tables empty and no run under way
Quiet ==
    /\ legal_articles = NoRows
    /\ legal_article_tags = NoTags
    /\ tag_pc = "idle"
    /\ articles = NoRows
    /\ tag_scores = NoTags
    /\ tag_purged = FALSE
    /\ tag_done = {}
    /\ tag_run = NoRun
    /\ article_ingestion = [exists |-> FALSE, rows |-> NoRows]
    /\ mat_pc = "idle"
    /\ mat_purged = FALSE
    /\ mat_done = {}
    /\ article_embeddings = NoRows
    /\ gen_pc = "idle"
    /\ pending = << >>
    /\ start_idx = 1 /\ i = 1
    /\ success = 0 /\ failure = 0 /\ total_success = 0 /\ total_failure = 0
    /\ raised = FALSE
    /\ txn = NoTxn
    /\ search_out = NoSearch

\* The words stem is called with: a beginning of letters of either case, the
\* variant letter and punctuation, followed by an entry of SUFFIXES, by
\* nothing or by punctuation; and the two words of the stability example.
StemBeginnings ==
    UNION {[1..n -> {"zh", "J", ","}] : n \in 0..MaxBeginLen}

StemEndings ==
    {SUFFIXES[k] : k \in DOMAIN SUFFIXES} \cup {<< >>, << "." >>}

Dogovorite == << "d", "o", "g", "o", "v", "o", "r", "i", "t", "e" >>
Dogovora == << "d", "o", "g", "o", "v", "o", "r", "a" >>

StemWords ==
    {b \o e : b \in StemBeginnings, e \in StemEndings} \cup {Dogovorite, Dogovora}

\* stem of each of the words (computed once)
StemOf == Table([word \in StemWords |-> stem(word)])

\* A call of stem, lines 29-38
Stem ==
    /\ \E word \in StemWords :
          call' = [fn |-> "stem", arg |-> word, result |-> StemOf[word]]
    /\ UNCHANGED <<legal_articles, tagVars, matVars, article_embeddings, genVars,
                   search_out>>

InitCall == Quiet /\ call = NoCall

SpecStem == InitCall /\ [][Stem]_vars

\* rag_utils.format_context_for_llm, lines 72-113
\* lines 95-97: header = f"[{doc_title}]", then " " and the number if there is one
Header(article) ==
    << "[" >> \o article.document_title \o << "]" >>
        \o (IF article.article_number # << >>
            THEN << " " >> \o article.article_number ELSE << >>)

\* line 99: entry = f"{header}:\n{content}\n"
Entry(header, content) == header \o << ":", "\n" >> \o content \o << "\n" >>

\* line 106: entry = f"{header}:\n{content[:remaining]}...\n"
TruncatedEntry(header, content, remaining) ==
    header \o << ":", "\n" >> \o SubSeq(content, 1, Min(Len(content), remaining))
           \o << ".", ".", ".", "\n" >>

\* lines 89-111: the loop over the articles; parts at its end
RECURSIVE FormatParts(_, _, _)
FormatParts(arts, total_chars, max_chars) ==
    IF arts = << >> THEN << >>
    ELSE LET header == Header(Head(arts))
             entry  == Entry(header, Head(arts).content)
         IN  IF total_chars + Len(entry) > max_chars
             THEN LET remaining == max_chars - total_chars - Len(header) - 10
                  IN  IF remaining > 100
                      THEN << TruncatedEntry(header, Head(arts).content, remaining) >>
                      ELSE << >>
             ELSE << entry >> \o FormatParts(Tail(arts), total_chars + Len(entry), max_chars)

\* line 113: "\n".join(parts)
RECURSIVE Join(_)
Join(parts) ==
    IF parts = << >> THEN << >>
    ELSE IF Len(parts) = 1 THEN parts[1]
    ELSE parts[1] \o << "\n" >> \o Join(Tail(parts))

\* lines 83-84 and 113
format_context_for_llm(arts, max_chars) ==
    IF arts = << >> THEN << >> ELSE Join(FormatParts(arts, 0, max_chars))

\* The retrieved articles of the calls: with and without a number, a short
\* content and one longer than the 100 characters of line 105
ContextTexts == {[k \in 1..3 |-> "x"], [k \in 1..130 |-> "x"]}

ContextArticle ==
    [document_title : {<< "Z" >>}, article_number : {<< >>, << "1" >>},
     content : ContextTexts]

ContextLists == UNION {[1..n -> ContextArticle] : n \in 0..MaxContextArticles}

ContextLimits == {0, 9, 18, 22, 140, 150, 6000}

ContextOf ==
    Table([c \in ContextLists \X ContextLimits |-> format_context_for_llm(c[1], c[2])])

\* A call of format_context_for_llm
FormatContext ==
    /\ \E arts \in ContextLists, max_chars \in ContextLimits :
          call' = [fn     |-> "format_context_for_llm",
                   arg    |-> [articles |-> arts, max_chars |-> max_chars],
                   result |-> ContextOf[<< arts, max_chars >>]]
    /\ UNCHANGED <<legal_articles, tagVars, matVars, article_embeddings, genVars,
                   search_out>>

SpecContext == InitCall /\ [][FormatContext]_vars

-----------------------------------------------------------------------------
(* Properties *)

\* A step of the embedding generator (in Spec nothing else writes these).
GenStep == <<genVars, article_embeddings>>' # <<genVars, article_embeddings>>

\* main has just called get_pending_articles and it returned.
ScanStep == NotRunning /\ gen_pc' \in {"batch", "done"} /\ GenStep

\* one iteration of the loop of process_batch
ProcessStep == gen_pc = "batch" /\ i <= Len(Batch) /\ GenStep

PendingArticleIds(p) == {p[k].article_id : k \in 1..Len(p)}

\* C1: an article whose content is unchanged since its last successful
\* embedding is not selected by get_pending_articles: every entry of the
\* pending list that is still to be processed belongs to an article without
\* a stored record, or with a stored content_hash other than the hash of the
\* content the scan read.
C1_UnchangedNotSelected ==
    gen_pc = "batch" =>
        \A k \in (start_idx + i - 1)..Len(pending) :
            \/ pending[k].article_id \notin DOMAIN article_embeddings
            \/ article_embeddings[pending[k].article_id].content_hash
                  # pending[k].content_hash

\* C2: the scan selects every ingestion record that has no embedding record
\* or whose content hashes to another value than the stored content_hash,
\* whatever the previous content was.
C2_StaleSelected ==
    [][ScanStep =>
         \A a \in DOMAIN article_ingestion.rows :
            (\/ a \notin DOMAIN article_embeddings
             \/ article_embeddings[a].content_hash
                   # compute_content_hash(article_ingestion.rows[a].content))
            => a \in PendingArticleIds(pending')]_vars

\* C3: every stored record's content_hash is the hash of the original
\* content (the embedded text without its tag suffix) that was read when the
\* text of the stored vector was built.
C3_HashOfOriginalContent ==
    \A a \in DOMAIN article_embeddings :
        LET r == article_embeddings[a]
        IN  /\ r.content_hash = compute_content_hash(r.src.content)
            /\ Len(r.src.content) <= Len(r.src.text)
            /\ SubSeq(r.src.text, 1, Len(r.src.content)) = r.src.content
            /\ r.vector = get_embedding(r.src.text, "ok").vector

\* C3 witness: a record embedded from a tag-augmented text, stored for a
\* content that has been edited since, while a per-item failure was counted.
C3_Witness ==
    /\ failure > 0
    /\ \E a \in DOMAIN article_embeddings :
          /\ article_embeddings[a].src.text # article_embeddings[a].src.content
          /\ article_embeddings[a].src.content # legal_articles[a]

\* C4: every persisted record has a vector whose length equals its declared
\* embedding_dim, whichever path stored it.
C4_VectorLengthIsDeclaredDim ==
    \A a \in DOMAIN article_embeddings :
        Len(article_embeddings[a].vector) = article_embeddings[a].embedding_dim

\* C5: in process_batch every iteration counts exactly one success or one
\* failure and moves on to the next article, no exception leaves the batch,
\* a failure persists nothing, and when process_batch returns
\* success + failure is the batch size.
C5_FailureIsolated ==
    [][/\ ProcessStep =>
            /\ raised' = FALSE
            /\ gen_pc' = "batch"
            /\ i' = i + 1
            /\ success' + failure' = success + failure + 1
            /\ success' + failure' = i' - 1
            /\ failure' = failure + 1 => article_embeddings' = article_embeddings
       /\ (gen_pc = "batch" /\ i > Len(Batch) /\ GenStep) =>
            success + failure = Len(Batch)]_vars

\* C5 witness: the first article of a batch failed (nothing is stored for
\* it) and the second one was attempted and stored.
C5_Witness ==
    /\ gen_pc = "batch"
    /\ Len(Batch) = 2
    /\ i = 3
    /\ failure = 1 /\ success = 1
    /\ Batch[1].article_id \notin DOMAIN article_embeddings
    /\ Batch[2].article_id \in DOMAIN article_embeddings

\* C6: a per-item failure leaves the stored record of the article (if any)
\* as it was, and the article is still selected by the WHERE clause of
\* get_pending_articles, so the next run that reads its ingestion record
\* retries it.
C6_FailureKeepsRecordAndRetries ==
    [][(ProcessStep /\ failure' = failure + 1) =>
          LET a == Batch[i].article_id
          IN  /\ (a \in DOMAIN article_embeddings) = (a \in DOMAIN article_embeddings')
              /\ a \in DOMAIN article_embeddings =>
                    article_embeddings'[a] = article_embeddings[a]
              /\ a \in DOMAIN article_ingestion'.rows =>
                    a \in PendingIds(article_ingestion', article_embeddings')]_vars

\* C6 witness: the article that just failed has a record stored by an
\* earlier run.
C6_Witness ==
    /\ gen_pc = "batch"
    /\ i = 2
    /\ failure = 1
    /\ Batch[1].article_id \in DOMAIN article_embeddings

\* C7: in every state a reader can see, each record is one complete write of
\* store_embedding: its norm is the L2 norm of its vector, and its vector,
\* content_hash, model and dimensionality are those of one and the same call.
C7_RecordIsOneWrite ==
    \A a \in DOMAIN article_embeddings :
        LET r == article_embeddings[a]
        IN  /\ r.norm = compute_l2_norm(r.vector)
            /\ r.norm * r.norm = SumSq(r.vector)
            /\ r.vector = r.src.vector
            /\ r.content_hash = r.src.content_hash
            /\ r.model_name = EMBEDDING_MODEL
            /\ r.embedding_dim = EMBEDDING_DIM

\* C7 witness: the generator is in the middle of a batch, one record of the
\* batch is already written and the record of the other article, written by
\* an earlier run, is about to be replaced.
C7_Witness ==
    /\ gen_pc = "batch"
    /\ Len(Batch) = 2
    /\ i = 2
    /\ success = 1
    /\ Batch[1].article_id \in DOMAIN article_embeddings
    /\ article_embeddings[Batch[1].article_id].src.text = Batch[1].content
    /\ Batch[2].article_id \in DOMAIN article_embeddings
    /\ article_embeddings[Batch[2].article_id].src.text # Batch[2].content

\* C8: every step of the materializer either leaves the visible
\* article_ingestion table as it was or replaces it by the complete new one
\* (one row per article of legal_articles).
C8_MaterializerAtomic ==
    [][(matVars' # matVars) =>
          \/ article_ingestion' = article_ingestion
          \/ /\ article_ingestion'.exists
             /\ DOMAIN article_ingestion'.rows = Articles]_vars

\* The joined rows of a search whose vector has the length of the query
\* and whose similarity meets the threshold.
Qualifying(so) ==
    {a \in JoinedIds(article_ingestion, article_embeddings, so.document_id) :
        /\ Len(article_embeddings[a].vector) = Len(so.query_vector)
        /\ ~SimBelow(cosine_similarity(so.query_vector, article_embeddings[a].vector,
                                       Sqrt(SumSq(so.query_vector)),
                                       article_embeddings[a].norm),
                     so.min_similarity)}

SimOf(so, a) ==
    cosine_similarity(so.query_vector, article_embeddings[a].vector,
                      Sqrt(SumSq(so.query_vector)), article_embeddings[a].norm)

SimGreater(s1, s2) == s1.n * s2.d > s2.n * s1.d

\* C9: a search that returns (with no scope or the scope of an existing
\* document) returns min(top_k, number of scoped records meeting the
\* threshold) records, sorted by similarity non-increasing, and no omitted
\* scoped record meeting the threshold has a strictly higher similarity than
\* a returned one.
C9_TopKHighest ==
    (search_out.called /\ ~search_out.raised /\ search_out.document_id # 0) =>
        LET res      == search_out.results
            returned == {res[k].article_id : k \in 1..Len(res)}
        IN  /\ Len(res) = Min(search_out.top_k, Cardinality(Qualifying(search_out)))
            /\ \A k \in 1..(Len(res) - 1) : res[k].similarity >= res[k + 1].similarity
            /\ \A o \in Qualifying(search_out) \ returned :
                  \A k \in 1..Len(res) :
                      ~SimGreater(SimOf(search_out, o), res[k].sim)

\* C10: every returned record has a reported similarity >= min_similarity,
\* and a search with a query vector of the stored dimensionality for which
\* no scoped record meets the threshold returns an empty list and raises
\* nothing.
C10_ReportedMeetsThreshold ==
    search_out.called =>
        /\ \A k \in 1..Len(search_out.results) :
              search_out.results[k].similarity * 10 >= search_out.min_similarity
        /\ (Len(search_out.query_vector) = EMBEDDING_DIM
               /\ Qualifying(search_out) = {}) =>
              (~search_out.raised /\ search_out.results = << >>)

\* The search of search_out repeated on the same store with the threshold m
\* and the joined rows delivered in the order order.
SearchAgain(m, order) ==
    search_similar_articles(article_ingestion, article_embeddings,
                            search_out.query_vector, search_out.top_k,
                            search_out.document_id, m, order)

RowOrders == Orders(JoinedIds(article_ingestion, article_embeddings,
                              search_out.document_id))

\* C11: for a fixed query vector, top_k, document scope and store, a search
\* with a lower min_similarity returns at least as many records as the
\* search with the higher one (whatever the order in which the rows are
\* delivered), and raises nothing when the other raised nothing.
C11_ThresholdMonotone ==
    (search_out.called /\ ~search_out.raised) =>
        \A m \in Thresholds : \A order \in RowOrders :
            m <= search_out.min_similarity =>
                /\ ~SearchAgain(m, order).raised
                /\ Len(SearchAgain(m, order).results) >= Len(search_out.results)

\* A search whose threshold excluded a record that the threshold 0 returns.
C11_Witness ==
    /\ search_out.called /\ ~search_out.raised
    /\ search_out.min_similarity = 50000
    /\ \E order \in RowOrders :
          Len(SearchAgain(0, order).results) > Len(search_out.results)

\* C12: a search with top_k = 1 and no scope returns, for every stored
\* record whose vector is the query vector, that record first, with a
\* reported similarity of at least 0.999.
C12_SelfFirst ==
    (search_out.called /\ ~search_out.raised /\ search_out.top_k = 1
        /\ search_out.document_id = NoDocument) =>
        \A a \in JoinedIds(article_ingestion, article_embeddings, NoDocument) :
            article_embeddings[a].vector = search_out.query_vector =>
                /\ Len(search_out.results) = 1
                /\ search_out.results[1].article_id = a
                /\ search_out.results[1].similarity >= 9990

\* C13: a search whose query vector has norm 0 raises nothing, and every
\* returned record for which the query norm or the stored norm is 0 has
\* similarity 0.
C13_ZeroNormIsZero ==
    search_out.called =>
        LET query_norm == Sqrt(SumSq(search_out.query_vector))
        IN  /\ query_norm = 0 => ~search_out.raised
            /\ \A k \in 1..Len(search_out.results) :
                  (query_norm = 0
                      \/ article_embeddings[search_out.results[k].article_id].norm = 0)
                  => search_out.results[k].sim.n = 0

\* C14: the value returned by a search (top_k > 0) on a store without
\* records differs from the value returned by the same search on a store
\* with records none of which is returned (at search_similar_articles and at
\* retrieve_relevant_laws).
C14_NotIndexedDistinguishable ==
    (search_out.called /\ ~search_out.raised /\ search_out.top_k > 0
        /\ article_embeddings = NoRows) =>
        \A e \in Stores(legal_articles) \ {NoRows} :
            \A order \in Orders(JoinedIds(article_ingestion, e, search_out.document_id)) :
                LET out == search_similar_articles(article_ingestion, e,
                               search_out.query_vector, search_out.top_k,
                               search_out.document_id, search_out.min_similarity,
                               order)
                IN  (~out.raised /\ out.results = << >>) =>
                        /\ ReturnValue(out) # ReturnValue(search_out)
                        /\ retrieve_relevant_laws(out) # retrieve_relevant_laws(search_out)

\* C15: no call of search_similar_articles or search_by_text ends with an
\* exception that reaches its caller.
C15_NoExceptionAtSearchBoundary ==
    search_out.called => ~search_out.raised

\* The names of the tags in ascending order
TagNamesAscending ==
    << "civil_procedure", "criminal_procedure", "elections", "ethics_lawyer",
       "ethics_medical", "family", "insurance", "labor", "maritime",
       "penal_substantive", "private_international_law", "social_security",
       "tax_procedure" >>

TagRank(tag) == CHOOSE k \in DOMAIN TagNamesAscending : TagNamesAscending[k] = tag

\* p comes before q: higher score, or equal score and lower tag name
RanksBefore(p, q) ==
    \/ p.score > q.score
    \/ p.score = q.score /\ TagRank(p.tag) < TagRank(q.tag)

\* The tag run that computed tag_scores has loaded the articles and has not
\* been followed by another one.
TagRunDone == tag_pc = "idle" /\ DOMAIN articles # {}

\* C16: the list computed by a tag rebuild for an article has at most 5
\* entries, all of them matching tags of the article; consecutive entries
\* are ordered by score descending and, for equal scores, by tag name
\* ascending; and every matching tag left out ranks after every entry.
C16_TopFiveByScoreThenName ==
    \A a \in DOMAIN articles :
        \E seed \in HashSeeds :
            LET cands == Candidates(a, ArticleTokens(articles), seed)
                list  == tag_scores[a]
                In(p, seq) == \E k \in DOMAIN seq : seq[k] = p
            IN  /\ Len(list) = Min(TopTags, Len(cands))
                /\ \A k \in DOMAIN list : In(list[k], cands)
                /\ \A k \in 1..(Len(list) - 1) : RanksBefore(list[k], list[k + 1])
                /\ \A c \in DOMAIN cands :
                      ~In(cands[c], list) =>
                          \A k \in DOMAIN list : RanksBefore(list[k], cands[c])

\* Some stemmed keyword of the tag is among the tokens
KeywordAmongTokens(vocab, toks) ==
    \E m \in DOMAIN vocab : \E j \in DOMAIN toks : toks[j] = vocab[m]

\* C17: in a tag rebuild a tag is appended to the list of an article (before
\* the cut to 5) iff at least one stemmed keyword of the tag is among the
\* stemmed tokens of the article; an article no tag matches has an empty
\* list, and once the run is complete no row in the table.
C17_CandidateIffKeywordMatches ==
    LET article_tokens == ArticleTokens(articles)
        Matches(a, t)  == KeywordAmongTokens(build_tag_vocab[t].vocab, article_tokens[a])
    IN  \A a \in DOMAIN articles :
            /\ \A seed \in HashSeeds :
                  LET cands == Candidates(a, article_tokens, seed)
                  IN  \A t \in DOMAIN build_tag_vocab :
                          (\E k \in DOMAIN cands : cands[k].tag = build_tag_vocab[t].tag)
                              <=> Matches(a, t)
            /\ (\A t \in DOMAIN build_tag_vocab : ~Matches(a, t)) =>
                  /\ tag_scores[a] = << >>
                  /\ (legal_article_tags = tag_scores) => legal_article_tags[a] = << >>

\* A completed run over an article with text that no tag matches and an
\* article that a tag matches.
C17_Witness ==
    /\ TagRunDone
    /\ legal_article_tags = tag_scores
    /\ \E a \in DOMAIN articles :
          /\ articles[a] = DocNone
          /\ legal_article_tags[a] = << >>
    /\ \E a \in DOMAIN articles : legal_article_tags[a] # << >>

\* C18: the step that completes a tag rebuild leaves in legal_article_tags
\* exactly the lists computed by that run, and no row for an article the run
\* did not load.
C18_FullReplace ==
    [][(tag_pc = "deleted" /\ tag_pc' = "idle") =>
          /\ legal_article_tags' = tag_scores
          /\ \A a \in Articles \ DOMAIN articles : legal_article_tags'[a] = << >>]_vars

\* A completed rebuild whose DELETE removed rows of a removed article or
\* rows written by the keyword tagger.
C18_Witness ==
    /\ TagRunDone
    /\ tag_purged
    /\ legal_article_tags = tag_scores
    /\ \E a \in DOMAIN articles : legal_article_tags[a] # << >>

\* C19: a tag rebuild that loads the same articles as the rebuild before it
\* computes the same lists (same tags, scores and order for every article).
C19_RebuildIdempotent ==
    [][(tag_pc = "idle" /\ tag_pc' = "deleted" /\ DOMAIN articles # {}
            /\ articles' = articles) =>
          tag_scores' = tag_scores]_vars

\* C20: the step that completes the materializer leaves in article_ingestion
\* a record for every article of legal_articles, built from that article,
\* and no record for another article identifier.
C20_OneRecordPerArticle ==
    [][(mat_pc = "created" /\ mat_pc' = "idle") =>
          /\ article_ingestion'.exists
          /\ DOMAIN article_ingestion'.rows = DOMAIN legal_articles
          /\ \A a \in DOMAIN legal_articles :
                article_ingestion'.rows[a].content = legal_articles[a]]_vars

\* A completed materializer run that replaced a table holding the record of
\* a removed article, and wrote the record of an article without tags.
C20_Witness ==
    /\ mat_pc = "idle" /\ article_ingestion.exists
    /\ mat_purged
    /\ DOMAIN article_ingestion.rows = DOMAIN legal_articles
    /\ DOMAIN legal_articles # Articles
    /\ \E a \in DOMAIN legal_articles : article_ingestion.rows[a].tags = << >>

\* C21: in every record of article_ingestion the tag list is ordered by score
\* descending (entries without a score last), tag_primary is the tag of the
\* first entry and is NULL exactly when the list is empty, and
\* tag_vector_hint lists the tag names in the order of the tag list.
C21_TagListOrdered ==
    \A a \in DOMAIN article_ingestion.rows :
        LET r == article_ingestion.rows[a]
        IN  /\ \A x, y \in DOMAIN r.tags : x < y => r.tags[x].score >= r.tags[y].score
            /\ (r.tag_primary = NULL) <=> (r.tags = << >>)
            /\ r.tags # << >> => r.tag_primary = r.tags[1].tag
            /\ Len(r.tag_vector_hint) = Len(r.tags)
            /\ \A k \in DOMAIN r.tags : r.tag_vector_hint[k] = r.tags[k].tag

\* A record without tags beside a record with several scored tags followed
\* by tags of the keyword tagger (no score).
C21_Witness ==
    /\ \E a \in DOMAIN article_ingestion.rows : article_ingestion.rows[a].tags = << >>
    /\ \E a \in DOMAIN article_ingestion.rows :
          LET r == article_ingestion.rows[a]
          IN  /\ Len(r.tags) >= 3
              /\ r.tags[2].score # NoScore
              /\ r.tags[Len(r.tags)].score = NoScore

\* C22: a generator run that finds the embedding function unavailable writes
\* nothing: article_embeddings is the same before and after the run, and the
\* run counts no article as a failure.
C22_NoModelNoWrite ==
    [][gen_pc' = "no_model" =>
          /\ article_embeddings' = article_embeddings
          /\ failure' = 0 /\ total_failure' = 0 /\ success' = 0 /\ total_success' = 0]_vars

\* A run without the embedding function over a store that holds a record
\* and an ingestion table that has an article awaiting its embedding.
C22_Witness ==
    /\ gen_pc = "no_model"
    /\ article_ingestion.exists
    /\ article_embeddings # NoRows
    /\ PendingIds(article_ingestion, article_embeddings) # {}

\* C23: a tag rebuild or a materializer run that ends between two articles
\* leaves the units it had processed committed and complete: the tag rows of
\* every article whose rows it had inserted, the record of every article
\* whose row it had built.
C23_InterruptedUnitsCommitted ==
    [][/\ (tag_done' # tag_done /\ tag_done' # {}) =>
              \A a \in tag_done' : legal_article_tags'[a] = tag_scores'[a]
       /\ (mat_done' # mat_done /\ mat_done' # {}) =>
              \A a \in mat_done' : a \in DOMAIN article_ingestion'.rows]_vars

\* lines 30-33: the token the suffix rule is applied to
Normalised(word) ==
    LET w1 == LowerText(word)
    IN  StripEdges(List([k \in 1..Len(w1) |-> IF w1[k] = "j" THEN "i" ELSE w1[k]]))

MatchingSuffixes(w) == {k \in DOMAIN SUFFIXES : EndsWith(w, SUFFIXES[k])}

\* The longest entry of SUFFIXES the token ends with, the first declared
\* among those of that length
LongestMatch(w) ==
    CHOOSE k \in MatchingSuffixes(w) :
        \A m \in MatchingSuffixes(w) :
            \/ Len(SUFFIXES[k]) > Len(SUFFIXES[m])
            \/ Len(SUFFIXES[k]) = Len(SUFFIXES[m]) /\ k <= m

\* C24: stem considers only the longest entry of SUFFIXES the token ends
\* with: it returns the token without that suffix if at least 3 characters
\* remain, and the token with no suffix removed otherwise (also when the
\* token ends with no entry).
C24_OnlyLongestSuffix ==
    call.fn = "stem" =>
        LET w == Normalised(call.arg)
        IN  IF MatchingSuffixes(w) = {} THEN call.result = w
            ELSE LET suf == SUFFIXES[LongestMatch(w)]
                 IN  IF Len(w) - Len(suf) >= 3
                     THEN call.result = SubSeq(w, 1, Len(w) - Len(suf))
                     ELSE call.result = w

\* C25: a call of stem with "dogovora" after a call with "dogovorite" returns
\* what that call returned, and a call with a word that has no letter (the
\* empty word, punctuation only) returns the empty word.
C25_StemStable ==
    [][call'.fn = "stem" =>
          /\ (call.fn = "stem" /\ call.arg = Dogovorite /\ call'.arg = Dogovora) =>
                 call'.result = call.result
          /\ (\A k \in DOMAIN call'.arg : Lower(call'.arg[k]) \notin Letters) =>
                 call'.result = << >>]_vars

\* The call with "dogovora", which loses its ending.
C25_Witness ==
    /\ call.fn = "stem"
    /\ call.arg = Dogovora
    /\ Len(call.result) < Len(call.arg)

\* C26: every step that changes article_embeddings (a call of store_embedding
\* by the generator or by another caller) writes the record of one article a:
\* afterwards the table holds one record for a, and the record of every
\* other article is there as it was.
C26_UpsertTouchesOneRecord ==
    [][article_embeddings' # article_embeddings =>
          \E a \in Articles :
              /\ DOMAIN article_embeddings' = DOMAIN article_embeddings \cup {a}
              /\ \A b \in DOMAIN article_embeddings :
                    b # a => article_embeddings'[b] = article_embeddings[b]]_vars

\* The generator is about to re-embed an article in a table that holds the
\* records of both articles, written by different calls (the vectors have
\* different lengths).
C26_Witness ==
    /\ DOMAIN article_embeddings = Articles
    /\ \E a, b \in Articles :
          /\ Len(article_embeddings[a].vector) = EMBEDDING_DIM
          /\ Len(article_embeddings[b].vector) = EMBEDDING_DIM + 1
    /\ gen_pc = "batch"
    /\ i <= Len(Batch)

\* C27: while the generator waits for get_embedding it has no open write
\* transaction on article_embeddings; the transaction is open only between
\* the INSERT OR REPLACE of store_embedding and its commit.
C27_NoLockWhileEncoding ==
    /\ gen_pc = "encoding" => ~txn.open
    /\ txn.open => gen_pc = "upsert"

\* The generator waits for the vector of the second article of a batch
\* after the record of the first was stored and committed.
C27_Witness ==
    /\ gen_pc = "encoding"
    /\ i = 2
    /\ success = 1
    /\ Batch[1].article_id \in DOMAIN article_embeddings
    /\ article_embeddings[Batch[1].article_id].src.text = Batch[1].content

C29_ScopedResultsBelongToDocument ==
    (search_out.called /\ ~search_out.raised /\ search_out.document_id # NoDocument) =>
        \A k \in DOMAIN search_out.results :
            search_out.results[k].document_id = search_out.document_id

\* C30: the string returned by format_context_for_llm has at most max_chars
\* characters, headers, truncation marks and separators included.
C30_ContextWithinLimit ==
    call.fn = "format_context_for_llm" => Len(call.result) <= call.arg.max_chars

====
